---------------------------- MODULE Spec2Model ----------------------------
(***************************************************************************)
(* A model of basil's CSV import pipeline (smart-import): the tabular      *)
(* decoder (parseCSV, detectDelimiter, parseCSVLine), the schema inferrer  *)
(* (detectBasilCSV, detectColumnMappings), the field normalizer            *)
(* (parseDate, parseAmount, determineTransactionType), the duplicate       *)
(* detector (checkForDuplicates) and processImportedTransactions.          *)
(*                                                                         *)
(* Text is a sequence of one-character strings, so that splitting,         *)
(* trimming, case folding and pattern matching are computed character by   *)
(* character as the code computes them.  Numbers are decimal fixed-point   *)
(* values, NaN is a value of its own.                                      *)
(***************************************************************************)
EXTENDS Integers, Sequences, FiniteSets, TLC

VARIABLES
    pc,                    \* position of the component under study
    line,                  \* detectDelimiter / parseCSVLine: the input line
    delimiter,             \* detectDelimiter's result, parseCSVLine's argument
    fields,                \* parseCSVLine's result
    csvText,               \* parseCSV: the raw text
    csvRows,               \* parseCSV: the returned rows
    rows,                  \* the ImportedRow[] handed to the schema inferrer / importer
    columnMapping,         \* the ColumnMapping detected or confirmed
    stored,                \* the transactions in storage
    parsedTransactions,    \* processImportedTransactions: the candidates so far
    rowIndex,              \* processImportedTransactions: the row the loop is at
    loads,                 \* calls of loadTransactions() since the run began
    uuidCount,             \* identifiers issued by crypto.randomUUID()
    consoleErrors,         \* the rows logged by console.error since the run began
    newTransaction,        \* checkForDuplicates: the candidate
    existingTransactions,  \* the existing records a candidate is compared with
    isDuplicate,           \* checkForDuplicates: the result
    dateInput,             \* parseDate: the text handed in
    dateOutput,            \* parseDate: the text returned
    amountInput,           \* parseAmount: the text handed in
    amountOutput,          \* parseAmount: the number returned
    amountRoundTrip,       \* parseAmount(String(amountOutput))
    typeInput,             \* determineTransactionType: [description, typeColumn, isDebit]
    typeOutput,            \* determineTransactionType: the type returned
    groupInput,            \* groupTransactionsByDescription: the candidates handed in
    groupOutput,           \* groupTransactionsByDescription: the groups returned
    similarityInput,       \* calculateStringSimilarity: <<str1, str2>>
    similarityOutput,      \* the distances and similarities computed for the two texts
    storageCall,           \* updateTransaction / deleteTransaction: the last call
    storageReturned,       \* updateTransaction / deleteTransaction: the value returned
    currentStep,           \* ImportWizard: the step shown
    transactionGroups,     \* ImportWizard: the groups under review
    ungroupedTransactions, \* ImportWizard: the candidates that are in no group
    selectedTransactions,  \* ImportWizard: the identifiers that are checked
    reviewChecked,         \* the duplicates that were checked at the last duplicate review
    imported               \* the candidates handed to addTransaction, in order

lineVars == <<line, delimiter, fields>>
csvVars == <<csvText, csvRows>>
detectVars == <<rows, columnMapping>>
importVars == <<stored, parsedTransactions, rowIndex, loads, uuidCount, consoleErrors>>
dupVars == <<newTransaction, existingTransactions, isDuplicate>>
parserVars == <<dateInput, dateOutput, amountInput, amountOutput, amountRoundTrip,
                typeInput, typeOutput>>
groupVars == <<groupInput, groupOutput>>
similarityVars == <<similarityInput, similarityOutput>>
storageVars == <<storageCall, storageReturned>>
wizardVars == <<currentStep, transactionGroups, ungroupedTransactions, selectedTransactions,
                reviewChecked, imported>>
reviewVars == <<similarityVars, storageVars, wizardVars>>

vars == <<pc, lineVars, csvVars, detectVars, importVars, dupVars, parserVars, groupVars,
          reviewVars>>

(***************************************************************************)
(* Bounds of the model.                                                    *)
(***************************************************************************)
MaxLineLen == 5
MaxTextLen == 6
MaxHeaders == 2
MaxFracDigits == 3
MaxExisting == 2
MaxRows == 2
MaxStored == 2
MaxUuids == 3
MaxGrouped == 5
MaxCompared == 3
MaxCalls == 2
MaxIssued == 6

(***************************************************************************)
(* Characters and strings.                                                 *)
(***************************************************************************)
QUOTE == "\""
BACKSLASH == "\\"
NEWLINE == "\n"

\* The characters String.prototype.trim() removes (those the model uses).
WhiteSpace == {" ", "\t", "\n", "\r"}

StringsUpTo(alphabet, n) == UNION {[1..k -> alphabet] : k \in 0..n}

Min2(a, b) == IF a < b THEN a ELSE b

\* Number of occurrences of character c in s: (s.match(new RegExp(c, 'g')) || []).length
Count(s, c) == Cardinality({i \in 1..Len(s) : s[i] = c})

RECURSIVE TrimStart(_)
TrimStart(s) ==
    IF s # <<>> /\ Head(s) \in WhiteSpace THEN TrimStart(Tail(s)) ELSE s

RECURSIVE TrimEnd(_)
TrimEnd(s) ==
    IF s # <<>> /\ s[Len(s)] \in WhiteSpace
    THEN TrimEnd(SubSeq(s, 1, Len(s) - 1))
    ELSE s

\* String.prototype.trim()
Trim(s) == TrimEnd(TrimStart(s))

\* The position of the k-th occurrence of the character sep in s.
SeparatorAt(s, sep, k) ==
    CHOOSE p \in 1..Len(s) :
        s[p] = sep /\ Cardinality({q \in 1..(p - 1) : s[q] = sep}) = k - 1

\* s.split(sep) for a one-character separator: k separators give k+1 pieces.
Split(s, sep) ==
    [k \in 1..(Count(s, sep) + 1) |->
        SubSeq(s,
               IF k = 1 THEN 1 ELSE SeparatorAt(s, sep, k - 1) + 1,
               IF k = Count(s, sep) + 1 THEN Len(s) ELSE SeparatorAt(s, sep, k) - 1)]

(***************************************************************************)
(* ImportedRow: a JavaScript object used as an ordered map.  It is a       *)
(* sequence of <<key, value>> pairs with distinct keys in insertion order  *)
(* (Object.keys order for non-numeric keys).                               *)
(***************************************************************************)
\* The value undefined: no text is equal to it.
UNDEFINED == <<"undefined">>

Keys(row) == [i \in 1..Len(row) |-> row[i][1]]

HasKey(row, k) == \E i \in 1..Len(row) : row[i][1] = k

\* row[k]
Get(row, k) ==
    IF HasKey(row, k)
    THEN row[CHOOSE i \in 1..Len(row) : row[i][1] = k][2]
    ELSE UNDEFINED

\* row[k] = v: an existing key keeps its place and takes the new value.
Put(row, k, v) ==
    IF HasKey(row, k)
    THEN [i \in 1..Len(row) |-> IF row[i][1] = k THEN <<k, v>> ELSE row[i]]
    ELSE Append(row, <<k, v>>)

(***************************************************************************)
(* Tabular decoder.                                                        *)
(***************************************************************************)
Delimiters == <<";", ",", "\t", "|">>

RECURSIVE DetectFrom(_, _, _, _)
DetectFrom(l, k, maxCount, bestDelimiter) ==
    IF k > Len(Delimiters) THEN bestDelimiter
    ELSE LET count == Count(l, Delimiters[k])
         IN  IF count > maxCount
             THEN DetectFrom(l, k + 1, count, Delimiters[k])
             ELSE DetectFrom(l, k + 1, maxCount, bestDelimiter)

\* A variant in which a later delimiter with an equal count replaces the best one.
RECURSIVE DetectLastFrom(_, _, _, _)
DetectLastFrom(l, k, maxCount, bestDelimiter) ==
    IF k > Len(Delimiters) THEN bestDelimiter
    ELSE LET count == Count(l, Delimiters[k])
         IN  IF count >= maxCount /\ count > 0
             THEN DetectLastFrom(l, k + 1, count, Delimiters[k])
             ELSE DetectLastFrom(l, k + 1, maxCount, bestDelimiter)

detectDelimiterLastWins(l) == DetectLastFrom(l, 1, 0, ",")

detectDelimiter(l) == DetectFrom(l, 1, 0, ",")

\* current.replace(/^"|"$/g, ""): one leading and one trailing quote go.
StripQuotes(s) ==
    LET s1 == IF s # <<>> /\ Head(s) = QUOTE THEN Tail(s) ELSE s
    IN  IF s1 # <<>> /\ s1[Len(s1)] = QUOTE
        THEN SubSeq(s1, 1, Len(s1) - 1)
        ELSE s1

RECURSIVE ParseLineFrom(_, _, _, _, _, _)
ParseLineFrom(l, d, i, result, current, inQuotes) ==
    IF i > Len(l) THEN Append(result, StripQuotes(current))
    ELSE IF l[i] = QUOTE /\ (i = 1 \/ l[i - 1] # BACKSLASH)
         THEN ParseLineFrom(l, d, i + 1, result, current, ~inQuotes)
         ELSE IF l[i] = d /\ ~inQuotes
              THEN ParseLineFrom(l, d, i + 1,
                                 Append(result, StripQuotes(current)), <<>>, inQuotes)
              ELSE ParseLineFrom(l, d, i + 1, result, Append(current, l[i]), inQuotes)

\* A variant that splits on every delimiter, quoted or not.
parseCSVLineIgnoringQuotes(l, d) ==
    LET pieces == Split(l, d)
    IN  [k \in 1..Len(pieces) |->
            StripQuotes(SelectSeq(pieces[k], LAMBDA c : c # QUOTE))]

parseCSVLine(l, d) == ParseLineFrom(l, d, 1, <<>>, <<>>, FALSE)

\* csvText.split("\n").filter((line) => line.trim())
NonBlankLines(text) == SelectSeq(Split(text, NEWLINE), LAMBDA l : Trim(l) # <<>>)

\* headers.forEach((header, index) => row[header.trim()] = values[index]?.trim() || "")
RECURSIVE BuildRow(_, _, _, _)
BuildRow(headers, values, index, row) ==
    IF index > Len(headers) THEN row
    ELSE BuildRow(headers, values, index + 1,
                  Put(row, Trim(headers[index]), Trim(values[index])))

RECURSIVE ParseRowsFrom(_, _, _, _, _)
ParseRowsFrom(lines, d, headers, i, acc) ==
    IF i > Len(lines) THEN acc
    ELSE LET values == parseCSVLine(lines[i], d)
         IN  IF Len(values) = Len(headers)
             THEN ParseRowsFrom(lines, d, headers, i + 1,
                                Append(acc, BuildRow(headers, values, 1, <<>>)))
             ELSE ParseRowsFrom(lines, d, headers, i + 1, acc)

\* A variant that keeps every data line, padding the missing values with "".
RECURSIVE PadRowsFrom(_, _, _, _, _)
PadRowsFrom(lines, d, headers, i, acc) ==
    IF i > Len(lines) THEN acc
    ELSE LET values == parseCSVLine(lines[i], d)
             padded == [k \in 1..Len(headers) |->
                           IF k <= Len(values) THEN values[k] ELSE <<>>]
         IN  PadRowsFrom(lines, d, headers, i + 1,
                         Append(acc, BuildRow(headers, padded, 1, <<>>)))

parseCSVPadding(text) ==
    LET lines == NonBlankLines(text)
    IN  IF Len(lines) < 2 THEN <<>>
        ELSE LET d == detectDelimiter(lines[1])
             IN  PadRowsFrom(lines, d, parseCSVLine(lines[1], d), 2, <<>>)

parseCSV(text) ==
    LET lines == NonBlankLines(text)
    IN  IF Len(lines) < 2 THEN <<>>
        ELSE LET d == detectDelimiter(lines[1])
             IN  ParseRowsFrom(lines, d, parseCSVLine(lines[1], d), 2, <<>>)

(***************************************************************************)
(* Case folding, substring search and the patterns of types.ts.            *)
(***************************************************************************)
UpperCase == <<"A","B","C","D","E","F","G","H","I","J","K","L","M",
               "N","O","P","Q","R","S","T","U","V","W","X","Y","Z">>
LowerCase == <<"a","b","c","d","e","f","g","h","i","j","k","l","m",
               "n","o","p","q","r","s","t","u","v","w","x","y","z">>

LowerChar(c) ==
    IF \E k \in 1..Len(UpperCase) : UpperCase[k] = c
    THEN LowerCase[CHOOSE k \in 1..Len(UpperCase) : UpperCase[k] = c]
    ELSE c

\* String.prototype.toLowerCase()
ToLowerCase(s) == [i \in 1..Len(s) |-> LowerChar(s[i])]

\* s.includes(pattern)
Includes(s, pattern) ==
    \E i \in 0..(Len(s) - Len(pattern)) : SubSeq(s, i + 1, i + Len(pattern)) = pattern

Digits == {"0", "1", "2", "3", "4", "5", "6", "7", "8", "9"}

AllDigits(s) == \A i \in 1..Len(s) : s[i] \in Digits

\* ^\d{a}<sep>\d{b}<sep>\d{c}$ with the group lengths drawn from the three sets.
DigitGroups(s, sep, lens1, lens2, lens3) ==
    LET parts == Split(s, sep)
    IN  /\ Len(parts) = 3
        /\ AllDigits(parts[1]) /\ Len(parts[1]) \in lens1
        /\ AllDigits(parts[2]) /\ Len(parts[2]) \in lens2
        /\ AllDigits(parts[3]) /\ Len(parts[3]) \in lens3

\* DATE_PATTERNS.some((pattern) => pattern.test(val))
MatchesDatePattern(val) ==
    \/ DigitGroups(val, "-", {4}, {2}, {2})
    \/ DigitGroups(val, "/", {2}, {2}, {4})
    \/ DigitGroups(val, "/", {2}, {2}, {2})
    \/ DigitGroups(val, "-", {2}, {2}, {4})
    \/ DigitGroups(val, "/", {1, 2}, {1, 2}, {4})
    \/ DigitGroups(val, "-", {1, 2}, {1, 2}, {4})

DropPrefix(s, c) == IF s # <<>> /\ Head(s) = c THEN Tail(s) ELSE s

\* \.?\d*$
OptionalDotDigits(s) == AllDigits(DropPrefix(s, "."))

\* \d+\.?\d*$
DigitsDotDigits(s) ==
    \E n \in 1..Len(s) : AllDigits(SubSeq(s, 1, n)) /\ OptionalDotDigits(SubSeq(s, n + 1, Len(s)))

\* (,\d{3})*\.?\d*$
RECURSIVE ThousandsGroups(_)
ThousandsGroups(s) ==
    \/ OptionalDotDigits(s)
    \/ /\ Len(s) >= 4
       /\ s[1] = ","
       /\ AllDigits(SubSeq(s, 2, 4))
       /\ ThousandsGroups(SubSeq(s, 5, Len(s)))

\* AMOUNT_PATTERNS.some((pattern) => pattern.test(val))
MatchesAmountPattern(val) ==
    \/ DigitsDotDigits(DropPrefix(DropPrefix(val, "-"), "$"))
    \/ LET r == DropPrefix(val, "-")
       IN  \E n \in 1..Min2(3, Len(r)) :
              AllDigits(SubSeq(r, 1, n)) /\ ThousandsGroups(SubSeq(r, n + 1, Len(r)))
    \/ /\ Len(val) >= 2
       /\ val[1] = "(" /\ val[Len(val)] = ")"
       /\ DigitsDotDigits(SubSeq(val, 2, Len(val) - 1))

COLUMN_MAPPINGS_date ==
    << <<"d","a","t","e">>,
       <<"t","r","a","n","s","a","c","t","i","o","n"," ","d","a","t","e">>,
       <<"t","r","a","n","s"," ","d","a","t","e">>,
       <<"p","o","s","t","e","d"," ","d","a","t","e">>,
       <<"e","f","f","e","c","t","i","v","e"," ","d","a","t","e">>,
       <<"v","a","l","u","e"," ","d","a","t","e">> >>

COLUMN_MAPPINGS_description ==
    << <<"d","e","s","c","r","i","p","t","i","o","n">>,
       <<"m","e","m","o">>,
       <<"r","e","f","e","r","e","n","c","e">>,
       <<"d","e","t","a","i","l","s">>,
       <<"t","r","a","n","s","a","c","t","i","o","n"," ","d","e","t","a","i","l","s">>,
       <<"p","a","y","e","e">>,
       <<"m","e","r","c","h","a","n","t">> >>

COLUMN_MAPPINGS_amount ==
    << <<"a","m","o","u","n","t">>,
       <<"t","r","a","n","s","a","c","t","i","o","n"," ","a","m","o","u","n","t">>,
       <<"v","a","l","u","e">>,
       <<"s","u","m">>,
       <<"t","o","t","a","l">> >>

COLUMN_MAPPINGS_debit ==
    << <<"d","e","b","i","t">>,
       <<"d","e","b","i","t"," ","a","m","o","u","n","t">>,
       <<"w","i","t","h","d","r","a","w","a","l">>,
       <<"o","u","t","g","o","i","n","g">> >>

COLUMN_MAPPINGS_credit ==
    << <<"c","r","e","d","i","t">>,
       <<"c","r","e","d","i","t"," ","a","m","o","u","n","t">>,
       <<"d","e","p","o","s","i","t">>,
       <<"i","n","c","o","m","i","n","g">> >>

COLUMN_MAPPINGS_category ==
    << <<"c","a","t","e","g","o","r","y">>,
       <<"m","e","r","c","h","a","n","t"," ","c","a","t","e","g","o","r","y">>,
       <<"c","a","t","e","g","o","r","y"," ","c","o","d","e">> >>

COLUMN_MAPPINGS_type ==
    << <<"t","y","p","e">>,
       <<"t","r","a","n","s","a","c","t","i","o","n"," ","t","y","p","e">>,
       <<"d","r","/","c","r">>,
       <<"d","e","b","i","t","/","c","r","e","d","i","t">> >>

(***************************************************************************)
(* Schema inferrer.                                                        *)
(***************************************************************************)
H_Date == <<"D","a","t","e">>
H_Description == <<"D","e","s","c","r","i","p","t","i","o","n">>
H_Category == <<"C","a","t","e","g","o","r","y">>
H_Type == <<"T","y","p","e">>
H_Amount == <<"A","m","o","u","n","t">>
H_CreatedAt == <<"C","r","e","a","t","e","d"," ","A","t">>

S_undefined == <<"u","n","d","e","f","i","n","e","d">>

\* String(v)
JSString(v) == IF v = UNDEFINED THEN S_undefined ELSE v

\* A value is truthy unless it is undefined or the empty string.
Truthy(v) == v # UNDEFINED /\ v # <<>>

basilHeaders == <<H_Date, H_Description, H_Category, H_Type, H_Amount, H_CreatedAt>>

\* A variant that asks for only one of the canonical names.
detectBasilCSVAny(headers) ==
    \E k \in 1..Len(basilHeaders) :
        \E i \in 1..Len(headers) : headers[i] = basilHeaders[k]

\* basilHeaders.every((header) => headers.includes(header))
detectBasilCSV(headers) ==
    \A k \in 1..Len(basilHeaders) :
        \E i \in 1..Len(headers) : headers[i] = basilHeaders[k]

\* The mapping detectColumnMappings starts from; an optional field that is
\* not set is UNDEFINED, and isBasilCSV = FALSE stands for the absent flag.
EmptyMapping ==
    [dateColumn |-> <<>>, descriptionColumn |-> <<>>, amountColumn |-> <<>>,
     debitColumn |-> UNDEFINED, creditColumn |-> UNDEFINED,
     categoryColumn |-> UNDEFINED, typeColumn |-> UNDEFINED,
     createdAtColumn |-> UNDEFINED, isBasilCSV |-> FALSE]

BasilMapping ==
    [dateColumn |-> H_Date, descriptionColumn |-> H_Description,
     amountColumn |-> H_Amount,
     debitColumn |-> UNDEFINED, creditColumn |-> UNDEFINED,
     categoryColumn |-> H_Category, typeColumn |-> H_Type,
     createdAtColumn |-> H_CreatedAt, isBasilCSV |-> TRUE]

\* COLUMN_MAPPINGS.x.some((pattern) => header.toLowerCase().includes(pattern))
NameMatches(header, vocabulary) ==
    LET lower == ToLowerCase(header)
    IN  \E k \in 1..Len(vocabulary) : Includes(lower, vocabulary[k])

\* for (const header of headers) { if (P(header)) { x = header; break } }
FirstHeader(headers, P(_), default) ==
    IF \E i \in 1..Len(headers) : P(headers[i])
    THEN headers[CHOOSE i \in 1..Len(headers) :
                     P(headers[i]) /\ \A j \in 1..(i - 1) : ~P(headers[j])]
    ELSE default

\* rows.slice(0, n)
Slice(rs, n) == SubSeq(rs, 1, Min2(n, Len(rs)))

\* At least min(3, sampleSize) of the first five values of the column match.
SampleMatches(rs, header, Matches(_)) ==
    LET sampleValues == [i \in 1..Len(Slice(rs, 5)) |-> JSString(Get(rs[i], header))]
        matches == {i \in 1..Len(sampleValues) : Matches(sampleValues[i])}
    IN  Cardinality(matches) >= Min2(3, Len(sampleValues))

RECURSIVE SumLengths(_, _)
SumLengths(rs, header) ==
    IF rs = <<>> THEN 0
    ELSE Len(JSString(Get(Head(rs), header))) + SumLengths(Tail(rs), header)

\* The column, other than the date and amount columns, with the greatest
\* average length over the first ten rows.  Every average has the same
\* divisor, min(10, rows.length), so the sums are compared.
RECURSIVE LongestFrom(_, _, _, _, _, _)
LongestFrom(rs, headers, m, i, longestTextColumn, maxSum) ==
    IF i > Len(headers) THEN longestTextColumn
    ELSE IF headers[i] # m.dateColumn /\ headers[i] # m.amountColumn
              /\ SumLengths(Slice(rs, 10), headers[i]) > maxSum
         THEN LongestFrom(rs, headers, m, i + 1, headers[i],
                          SumLengths(Slice(rs, 10), headers[i]))
         ELSE LongestFrom(rs, headers, m, i + 1, longestTextColumn, maxSum)

DetectDate(rs, headers, m) ==
    LET byName == FirstHeader(headers,
                      LAMBDA h : NameMatches(h, COLUMN_MAPPINGS_date), m.dateColumn)
    IN  IF byName # <<>> THEN [m EXCEPT !.dateColumn = byName]
        ELSE [m EXCEPT !.dateColumn =
                 FirstHeader(headers,
                     LAMBDA h : SampleMatches(rs, h, MatchesDatePattern), byName)]

DetectAmountByName(headers, m) ==
    [m EXCEPT !.amountColumn =
        FirstHeader(headers, LAMBDA h : NameMatches(h, COLUMN_MAPPINGS_amount), @)]

DetectDebitCredit(headers, m) ==
    [m EXCEPT
        !.debitColumn =
            FirstHeader(headers, LAMBDA h : NameMatches(h, COLUMN_MAPPINGS_debit), @),
        !.creditColumn =
            FirstHeader(headers, LAMBDA h : NameMatches(h, COLUMN_MAPPINGS_credit), @)]

DetectAmountByPattern(rs, headers, m) ==
    IF m.amountColumn = <<>> /\ ~(Truthy(m.debitColumn) /\ Truthy(m.creditColumn))
    THEN [m EXCEPT !.amountColumn =
             FirstHeader(headers,
                 LAMBDA h : SampleMatches(rs, h, MatchesAmountPattern), @)]
    ELSE m

DetectDescription(rs, headers, m) ==
    LET byName == FirstHeader(headers,
                      LAMBDA h : NameMatches(h, COLUMN_MAPPINGS_description),
                      m.descriptionColumn)
    IN  IF byName # <<>> THEN [m EXCEPT !.descriptionColumn = byName]
        ELSE [m EXCEPT !.descriptionColumn = LongestFrom(rs, headers, m, 1, <<>>, 0)]

\* The first header of each vocabulary: once a column is set, !mapping.x is
\* false for every later header.
DetectCategoryType(headers, m) ==
    [m EXCEPT
        !.categoryColumn =
            FirstHeader(headers, LAMBDA h : NameMatches(h, COLUMN_MAPPINGS_category), @),
        !.typeColumn =
            FirstHeader(headers, LAMBDA h : NameMatches(h, COLUMN_MAPPINGS_type), @)]

Heuristics(rs, headers) ==
    DetectCategoryType(headers,
        DetectDescription(rs, headers,
            DetectAmountByPattern(rs, headers,
                DetectDebitCredit(headers,
                    DetectAmountByName(headers,
                        DetectDate(rs, headers, EmptyMapping))))))

detectColumnMappings(rs) ==
    IF Len(rs) = 0 THEN EmptyMapping
    ELSE LET headers == Keys(rs[1])
         IN  IF detectBasilCSV(headers) THEN BasilMapping ELSE Heuristics(rs, headers)

(***************************************************************************)
(* Numbers.  A finite number is an integer count of units of               *)
(* 10^-MaxFracDigits: further decimals of a text are dropped.  A value     *)
(* that may be NaN is a sequence: <<>> for NaN, <<n>> for the number n.    *)
(***************************************************************************)
RECURSIVE Pow10(_)
Pow10(n) == IF n = 0 THEN 1 ELSE 10 * Pow10(n - 1)

Scale == Pow10(MaxFracDigits)

NaN == <<>>

\* Math.abs
MathAbs(n) == IF n < 0 THEN -n ELSE n

DigitValue(c) == CHOOSE v \in 0..9 : <<"0", "1", "2", "3", "4", "5", "6", "7", "8", "9">>[v + 1] = c

\* The value of a run of decimal digits (0 for the empty run).
RECURSIVE ToInt(_)
ToInt(ds) ==
    IF ds = <<>> THEN 0
    ELSE 10 * ToInt(SubSeq(ds, 1, Len(ds) - 1)) + DigitValue(ds[Len(ds)])

\* The longest prefix of s made of digits.
RECURSIVE DigitPrefix(_)
DigitPrefix(s) ==
    IF s # <<>> /\ Head(s) \in Digits THEN <<Head(s)>> \o DigitPrefix(Tail(s)) ELSE <<>>

Drop(s, n) == SubSeq(s, n + 1, Len(s))

\* The fraction digits as a count of units: cut or padded to MaxFracDigits digits.
FractionUnits(ds) ==
    IF Len(ds) >= MaxFracDigits THEN ToInt(SubSeq(ds, 1, MaxFracDigits))
    ELSE ToInt(ds) * Pow10(MaxFracDigits - Len(ds))

\* mantissa * 10^e, for an exponent of either sign.
ScaleBy(mantissa, e) ==
    IF e >= 0 THEN mantissa * Pow10(e) ELSE mantissa \div Pow10(-e)

StartsWith(s, c) == s # <<>> /\ Head(s) = c

\* The digits of an exponent, with their sign; 0 without digits.
SignedDigits(r) ==
    IF StartsWith(r, "-") THEN -ToInt(DigitPrefix(Tail(r)))
    ELSE IF StartsWith(r, "+") THEN ToInt(DigitPrefix(Tail(r)))
    ELSE ToInt(DigitPrefix(r))

\* The exponent that follows the mantissa: e or E, an optional sign, digits.
ExponentOf(rest) ==
    IF rest # <<>> /\ Head(rest) \in {"e", "E"} THEN SignedDigits(Tail(rest)) ELSE 0

\* The number with the given integer and fraction digits; afterDot is the
\* text from the fraction digits on.  No digit at all gives NaN.
WithFraction(intDigits, fracDigits, afterDot) ==
    IF intDigits = <<>> /\ fracDigits = <<>> THEN NaN
    ELSE <<ScaleBy(ToInt(intDigits) * Scale + FractionUnits(fracDigits),
                   ExponentOf(Drop(afterDot, Len(fracDigits))))>>

UnsignedFloat(u) ==
    LET intDigits == DigitPrefix(u)
        afterInt == Drop(u, Len(intDigits))
    IN  IF StartsWith(afterInt, ".")
        THEN WithFraction(intDigits, DigitPrefix(Tail(afterInt)), Tail(afterInt))
        ELSE WithFraction(intDigits, <<>>, afterInt)

Negated(x) == IF x = NaN THEN NaN ELSE <<-x[1]>>

\* parseFloat(s): leading white space, an optional sign, digits with an
\* optional fraction (or a fraction alone), an optional exponent; what
\* follows is ignored.  No digit at all gives NaN.  (The literal Infinity
\* is not read.)
parseFloat(s) ==
    IF StartsWith(TrimStart(s), "-") THEN Negated(UnsignedFloat(Tail(TrimStart(s))))
    ELSE IF StartsWith(TrimStart(s), "+") THEN UnsignedFloat(Tail(TrimStart(s)))
    ELSE UnsignedFloat(TrimStart(s))

isNaN(x) == x = NaN

\* /[$...]/g: the currency signs parseAmount removes.
CurrencySigns == {"$", "€", "£", "¥", "₹", "₩", "￥"}

\* s.replace(/[chars]/g, '')
RECURSIVE RemoveAll(_, _)
RemoveAll(s, chars) ==
    IF s = <<>> THEN <<>>
    ELSE IF Head(s) \in chars THEN RemoveAll(Tail(s), chars)
         ELSE <<Head(s)>> \o RemoveAll(Tail(s), chars)

\* /^\(.*\)$/.test(s): '.' matches no line terminator.
InParentheses(s) ==
    /\ Len(s) >= 2
    /\ s[1] = "(" /\ s[Len(s)] = ")"
    /\ \A i \in 2..(Len(s) - 1) : s[i] \notin {"\n", "\r"}

\* A variant that negates the parsed number without taking its magnitude.
parseAmountFlipping(amountStr) ==
    LET trimmed == Trim(JSString(amountStr))
        isNegativeParens == InParentheses(trimmed)
        inner == IF isNegativeParens THEN SubSeq(trimmed, 2, Len(trimmed) - 1) ELSE trimmed
        cleaned == RemoveAll(RemoveAll(inner, CurrencySigns), {","} \cup WhiteSpace)
        amount == parseFloat(cleaned)
    IN  IF isNaN(amount) THEN 0
        ELSE IF isNegativeParens \/ StartsWith(trimmed, "-")
             THEN -amount[1]
             ELSE amount[1]

\* A variant that gives the magnitude whenever the text is not marked negative.
parseAmountUnsigned(amountStr) ==
    LET trimmed == Trim(JSString(amountStr))
        isNegativeParens == InParentheses(trimmed)
        inner == IF isNegativeParens THEN SubSeq(trimmed, 2, Len(trimmed) - 1) ELSE trimmed
        cleaned == RemoveAll(RemoveAll(inner, CurrencySigns), {","} \cup WhiteSpace)
        amount == parseFloat(cleaned)
    IN  IF isNaN(amount) THEN 0
        ELSE IF isNegativeParens \/ StartsWith(trimmed, "-")
             THEN -MathAbs(amount[1])
             ELSE MathAbs(amount[1])

parseAmount(amountStr) ==
    LET trimmed == Trim(JSString(amountStr))
        isNegativeParens == InParentheses(trimmed)
        inner == IF isNegativeParens THEN SubSeq(trimmed, 2, Len(trimmed) - 1) ELSE trimmed
        cleaned == RemoveAll(RemoveAll(inner, CurrencySigns), {","} \cup WhiteSpace)
        amount == parseFloat(cleaned)
    IN  IF isNaN(amount) THEN 0
        ELSE IF isNegativeParens \/ StartsWith(trimmed, "-")
             THEN -MathAbs(amount[1])
             ELSE amount[1]

(***************************************************************************)
(* Dates.  A Date built from a date-only text is a UTC midnight; its       *)
(* getTime() is a day number times (1000 * 60 * 60 * 24), so time values   *)
(* are counted in days.  An invalid Date has the time value NaN.           *)
(***************************************************************************)
IsLeapYear(y) == (y % 4 = 0 /\ y % 100 # 0) \/ y % 400 = 0

DaysInMonth(y, m) ==
    IF m = 2 THEN (IF IsLeapYear(y) THEN 29 ELSE 28)
    ELSE IF m \in {4, 6, 9, 11} THEN 30 ELSE 31

\* Days from 1970-01-01 to the civil date y-m-d.
DaysFromCivil(y, m, d) ==
    LET yy == IF m <= 2 THEN y - 1 ELSE y
        era == yy \div 400
        yoe == yy - era * 400
        mp == IF m > 2 THEN m - 3 ELSE m + 9
        doy == (153 * mp + 2) \div 5 + d - 1
        doe == yoe * 365 + yoe \div 4 - yoe \div 100 + doy
    IN  era * 146097 + doe - 719468

\* new Date(s).getTime() in days, for the date-only forms of the ECMAScript
\* date-time format: YYYY, YYYY-MM and YYYY-MM-DD with a month of 1..12 and
\* a day of the month.  Any other text goes to an implementation-defined
\* parser: it rejects a text without a digit, and the specifications draw
\* no other text of that kind.
DateTime(s) ==
    LET parts == Split(s, "-")
        wellFormed ==
            /\ Len(parts) \in 1..3
            /\ Len(parts[1]) = 4
            /\ \A i \in 2..Len(parts) : Len(parts[i]) = 2
            /\ \A i \in 1..Len(parts) : AllDigits(parts[i])
        y == ToInt(parts[1])
        m == IF Len(parts) >= 2 THEN ToInt(parts[2]) ELSE 1
        d == IF Len(parts) = 3 THEN ToInt(parts[3]) ELSE 1
    IN  IF wellFormed /\ m \in 1..12 /\ d \in 1..DaysInMonth(y, m)
        THEN <<DaysFromCivil(y, m, d)>>
        ELSE NaN

\* s.padStart(2, '0')
PadStart2(s) == IF Len(s) < 2 THEN [i \in 1..(2 - Len(s)) |-> "0"] \o s ELSE s

\* date.toISOString().split('T')[0] of a valid Date built from the text s.
ISODate(s) ==
    LET parts == Split(s, "-")
    IN  parts[1] \o <<"-">>
        \o (IF Len(parts) >= 2 THEN parts[2] ELSE <<"0", "1">>) \o <<"-">>
        \o (IF Len(parts) = 3 THEN parts[3] ELSE <<"0", "1">>)

(***************************************************************************)
(* Field normalizer of smartImport.ts, as processImportedTransactions      *)
(* calls it.  A format gives the text it builds, or <<>> for null.         *)
(***************************************************************************)
\* /^\d{4}-\d{2}-\d{2}/ and d.split(' ')[0]
FormatISO(d) ==
    IF /\ Len(d) >= 10
       /\ AllDigits(SubSeq(d, 1, 4)) /\ d[5] = "-"
       /\ AllDigits(SubSeq(d, 6, 7)) /\ d[8] = "-"
       /\ AllDigits(SubSeq(d, 9, 10))
    THEN Split(d, " ")[1]
    ELSE <<>>

\* The groups of /^(\d{1,2})\/(\d{1,2})\/(\d{n})/: <<first, second, third, rest>>,
\* or <<>> when the text does not start that way.
SlashGroups(d, n) ==
    LET parts == Split(d, "/")
    IN  IF /\ Len(parts) >= 3
           /\ Len(parts[1]) \in {1, 2} /\ AllDigits(parts[1])
           /\ Len(parts[2]) \in {1, 2} /\ AllDigits(parts[2])
           /\ Len(parts[3]) >= n /\ AllDigits(SubSeq(parts[3], 1, n))
        THEN <<parts[1], parts[2], SubSeq(parts[3], 1, n),
               Len(d) - (Len(parts[1]) + Len(parts[2]) + n + 2)>>
        ELSE <<>>

\* MM/DD/YYYY
FormatUS(d) ==
    LET g == SlashGroups(d, 4)
    IN  IF g = <<>> THEN <<>>
        ELSE g[3] \o <<"-">> \o PadStart2(g[1]) \o <<"-">> \o PadStart2(g[2])

\* MM/DD/YY, to the end of the text
FormatUSShort(d) ==
    LET g == SlashGroups(d, 2)
    IN  IF g = <<>> \/ g[4] # 0 THEN <<>>
        ELSE (IF ToInt(g[3]) > 50 THEN <<"1", "9">> ELSE <<"2", "0">>) \o g[3]
             \o <<"-">> \o PadStart2(g[1]) \o <<"-">> \o PadStart2(g[2])

\* DD/MM/YYYY, taken when the first group is above 12
FormatEU(d) ==
    LET g == SlashGroups(d, 4)
    IN  IF g = <<>> \/ ToInt(g[1]) <= 12 THEN <<>>
        ELSE g[3] \o <<"-">> \o PadStart2(g[2]) \o <<"-">> \o PadStart2(g[1])

\* parseDate of smartImport.ts: the first format that gives a text, else the
\* Date constructor, else the cleaned text as it is.
smartImport_parseDate(dateStr) ==
    LET cleaned == RemoveAll(Trim(dateStr), {"'", QUOTE})
        results == <<FormatISO(cleaned), FormatUS(cleaned),
                     FormatUSShort(cleaned), FormatEU(cleaned)>>
    IN  IF \E k \in 1..Len(results) : results[k] # <<>>
        THEN results[CHOOSE k \in 1..Len(results) :
                        results[k] # <<>> /\ \A j \in 1..(k - 1) : results[j] = <<>>]
        ELSE IF ~isNaN(DateTime(cleaned)) THEN ISODate(cleaned)
             ELSE cleaned

\* determineTransactionType of smartImport.ts.  typeColumn is a text or
\* UNDEFINED; isDebit is <<>> for undefined, else <<TRUE>> or <<FALSE>>.
K_credit == <<"c","r","e","d","i","t">>
K_deposit == <<"d","e","p","o","s","i","t">>
K_income == <<"i","n","c","o","m","e">>
K_debit == <<"d","e","b","i","t">>
K_withdrawal == <<"w","i","t","h","d","r","a","w","a","l">>
K_expense == <<"e","x","p","e","n","s","e">>

incomeKeywords ==
    << <<"s","a","l","a","r","y">>,
       <<"p","a","y","c","h","e","c","k">>,
       <<"w","a","g","e">>,
       <<"b","o","n","u","s">>,
       <<"r","e","f","u","n","d">>,
       K_deposit,
       <<"i","n","t","e","r","e","s","t">>,
       <<"d","i","v","i","d","e","n","d">>,
       <<"f","r","e","e","l","a","n","c","e">> >>

smartImport_determineTransactionType(description, typeColumn, isDebit) ==
    LET type == ToLowerCase(typeColumn)
        desc == ToLowerCase(description)
    IN  IF Truthy(typeColumn)
           /\ (Includes(type, K_credit) \/ Includes(type, K_deposit) \/ Includes(type, K_income))
        THEN "income"
        ELSE IF Truthy(typeColumn)
                /\ (Includes(type, K_debit) \/ Includes(type, K_withdrawal)
                    \/ Includes(type, K_expense))
        THEN "expense"
        ELSE IF \E k \in 1..Len(incomeKeywords) : Includes(desc, incomeKeywords[k])
        THEN "income"
        ELSE IF isDebit # <<>>
        THEN (IF isDebit[1] THEN "expense" ELSE "income")
        ELSE "expense"

(***************************************************************************)
(* Field normalizer of smart-import/data-parsers.ts.                       *)
(***************************************************************************)
\* A variant that reads a text with both groups up to 12 as DD/MM.
FormatMDYDayFirst(d) ==
    LET g == SlashGroups(d, 4)
    IN  IF g # <<>> /\ ToInt(g[1]) <= 12 /\ ToInt(g[2]) <= 31
        THEN IF ToInt(g[2]) <= 12
             THEN g[3] \o <<"-">> \o PadStart2(g[2]) \o <<"-">> \o PadStart2(g[1])
             ELSE g[3] \o <<"-">> \o PadStart2(g[1]) \o <<"-">> \o PadStart2(g[2])
        ELSE <<>>

\* MM/DD/YYYY, taken when the first group could be a month and the second a day
FormatMDY(d) ==
    LET g == SlashGroups(d, 4)
    IN  IF g # <<>> /\ ToInt(g[1]) <= 12 /\ ToInt(g[2]) <= 31
        THEN g[3] \o <<"-">> \o PadStart2(g[1]) \o <<"-">> \o PadStart2(g[2])
        ELSE <<>>

\* DD/MM/YYYY, taken when the first group is above 12, or is a day and the
\* second a month
FormatDMY(d) ==
    LET g == SlashGroups(d, 4)
    IN  IF g = <<>> THEN <<>>
        ELSE IF ToInt(g[1]) > 12 \/ (ToInt(g[1]) <= 31 /\ ToInt(g[2]) <= 12)
        THEN g[3] \o <<"-">> \o PadStart2(g[2]) \o <<"-">> \o PadStart2(g[1])
        ELSE <<>>

\* The result of the first format that gives a text, <<>> when none does.
RECURSIVE FirstResult(_)
FirstResult(results) ==
    IF results = <<>> THEN <<>>
    ELSE IF Head(results) # <<>> THEN Head(results)
         ELSE FirstResult(Tail(results))

\* parseDate of data-parsers.ts: the first format that gives a text, else the
\* Date constructor, else the empty text.
parseDate(dateStr) ==
    LET cleaned == RemoveAll(Trim(dateStr), {"'", QUOTE})
        result == FirstResult(<<FormatISO(cleaned), FormatMDY(cleaned),
                                FormatUSShort(cleaned), FormatDMY(cleaned)>>)
    IN  IF result # <<>> THEN result
        ELSE IF ~isNaN(DateTime(cleaned)) THEN ISODate(cleaned)
             ELSE <<>>

\* determineTransactionType of data-parsers.ts.  typeColumn is a text or
\* UNDEFINED; isDebit is <<>> for undefined, else <<TRUE>> or <<FALSE>>.
dataParsers_incomeKeywords ==
    << <<"s","a","l","a","r","y">>,
       <<"p","a","y","c","h","e","c","k">>,
       <<"p","a","y","r","o","l","l">>,
       <<"w","a","g","e">>,
       <<"b","o","n","u","s">>,
       <<"r","e","f","u","n","d">>,
       K_deposit,
       <<"i","n","t","e","r","e","s","t">>,
       <<"d","i","v","i","d","e","n","d">>,
       <<"f","r","e","e","l","a","n","c","e">>,
       <<"t","r","a","n","s","f","e","r"," ","i","n">> >>

\* incomeKeywords.some((keyword) => desc.includes(keyword))
SomeIncomeKeyword(desc) ==
    \E k \in 1..Len(dataParsers_incomeKeywords) : Includes(desc, dataParsers_incomeKeywords[k])

\* The two return statements for the exact values and the two for the
\* vocabularies: "income", "expense", or "" when the type column decides nothing.
TypeFromColumn(type) ==
    IF type = K_income THEN "income"
    ELSE IF type = K_expense THEN "expense"
    ELSE IF Includes(type, K_credit) \/ Includes(type, K_deposit) \/ Includes(type, K_income)
    THEN "income"
    ELSE IF Includes(type, K_debit) \/ Includes(type, K_withdrawal) \/ Includes(type, K_expense)
    THEN "expense"
    ELSE ""

\* A variant that looks at the description before the type column.
determineTransactionTypeKeywordsFirst(description, typeColumn, isDebit) ==
    IF SomeIncomeKeyword(ToLowerCase(description)) THEN "income"
    ELSE IF Truthy(typeColumn) /\ TypeFromColumn(Trim(ToLowerCase(typeColumn))) # ""
    THEN TypeFromColumn(Trim(ToLowerCase(typeColumn)))
    ELSE IF isDebit # <<>>
    THEN (IF isDebit[1] THEN "expense" ELSE "income")
    ELSE "expense"

determineTransactionType(description, typeColumn, isDebit) ==
    IF Truthy(typeColumn) /\ TypeFromColumn(Trim(ToLowerCase(typeColumn))) # ""
    THEN TypeFromColumn(Trim(ToLowerCase(typeColumn)))
    ELSE IF SomeIncomeKeyword(ToLowerCase(description)) THEN "income"
    ELSE IF isDebit # <<>>
    THEN (IF isDebit[1] THEN "expense" ELSE "income")
    ELSE "expense"

(***************************************************************************)
(* Duplicate detector.                                                     *)
(***************************************************************************)
Min3(a, b, c) == Min2(a, Min2(b, c))

\* A variant in which a substitution costs as much as a deletion and an insertion.
RECURSIVE LevRowCostlySubstitution(_, _, _, _, _)
LevRowCostlySubstitution(str1, str2, i, previous, current) ==
    LET j == Len(current)
    IN  IF j > Len(str1) THEN current
        ELSE LevRowCostlySubstitution(str1, str2, i, previous,
                 Append(current,
                     IF str2[i] = str1[j]
                     THEN previous[j]
                     ELSE Min3(previous[j] + 2, current[j] + 1, previous[j + 1] + 1)))

\* Row i of the matrix from row i - 1; column j is at index j + 1.
RECURSIVE LevRow(_, _, _, _, _)
LevRow(str1, str2, i, previous, current) ==
    LET j == Len(current)
    IN  IF j > Len(str1) THEN current
        ELSE LevRow(str1, str2, i, previous,
                 Append(current,
                     IF str2[i] = str1[j]
                     THEN previous[j]
                     ELSE Min3(previous[j] + 1, current[j] + 1, previous[j + 1] + 1)))

RECURSIVE LevRows(_, _, _, _)
LevRows(str1, str2, i, previous) ==
    IF i > Len(str2) THEN previous
    ELSE LevRows(str1, str2, i + 1, LevRow(str1, str2, i, previous, <<i>>))

levenshteinDistance(str1, str2) ==
    LevRows(str1, str2, 1, [j \in 1..(Len(str1) + 1) |-> j - 1])[Len(str1) + 1]

\* The similarity as a fraction <<numerator, denominator>>:
\* (longer.length - editDistance) / longer.length, and 1.0 for two empty texts.
calculateStringSimilarity(str1, str2) ==
    LET longer == IF Len(str1) > Len(str2) THEN str1 ELSE str2
        shorter == IF Len(str1) > Len(str2) THEN str2 ELSE str1
        editDistance == levenshteinDistance(longer, shorter)
    IN  IF Len(longer) = 0 THEN <<1, 1>>
        ELSE <<Len(longer) - editDistance, Len(longer)>>

\* a > b for fractions with positive denominators
FractionGreater(a, b) == a[1] * b[2] > b[1] * a[2]

DUPLICATE_THRESHOLD_DAYS == 3

\* 0.8 as a fraction
DESCRIPTION_SIMILARITY_THRESHOLD == <<8, 10>>

\* The amount tolerance 0.01 in units.
AMOUNT_TOLERANCE == Scale \div 100

\* A variant in which an invalid Date passes the date test.
MatchesExistingIgnoringInvalidDates(candidate, existing) ==
    LET newDate == DateTime(candidate.date)
        existingDate == DateTime(existing.date)
    IN  /\ \/ isNaN(newDate) \/ isNaN(existingDate)
           \/ MathAbs(newDate[1] - existingDate[1]) <= DUPLICATE_THRESHOLD_DAYS
        /\ MathAbs(existing.amount - MathAbs(candidate.amount)) < AMOUNT_TOLERANCE
        /\ FractionGreater(
               calculateStringSimilarity(ToLowerCase(candidate.description),
                                         ToLowerCase(existing.description)),
               DESCRIPTION_SIMILARITY_THRESHOLD)

\* The three tests of one loop iteration.  With an invalid Date on either
\* side daysDiff is NaN, and NaN <= 3 is false.
MatchesExisting(candidate, existing) ==
    LET newDate == DateTime(candidate.date)
        existingDate == DateTime(existing.date)
    IN  /\ ~isNaN(newDate) /\ ~isNaN(existingDate)
        /\ MathAbs(newDate[1] - existingDate[1]) <= DUPLICATE_THRESHOLD_DAYS
        /\ MathAbs(existing.amount - MathAbs(candidate.amount)) < AMOUNT_TOLERANCE
        /\ FractionGreater(
               calculateStringSimilarity(ToLowerCase(candidate.description),
                                         ToLowerCase(existing.description)),
               DESCRIPTION_SIMILARITY_THRESHOLD)

\* A variant that looks at the first record only.
checkForDuplicatesFirstOnly(candidate, records) ==
    records # <<>> /\ MatchesExisting(candidate, Head(records))

\* for (const existing of records) { ... return true } return false
RECURSIVE checkForDuplicates(_, _)
checkForDuplicates(candidate, records) ==
    IF records = <<>> THEN FALSE
    ELSE IF MatchesExisting(candidate, Head(records)) THEN TRUE
         ELSE checkForDuplicates(candidate, Tail(records))

(***************************************************************************)
(* Importer.                                                               *)
(***************************************************************************)
DigitChars == <<"0", "1", "2", "3", "4", "5", "6", "7", "8", "9">>

\* The decimal digits of a natural number.
RECURSIVE NatToString(_)
NatToString(n) ==
    IF n < 10 THEN <<DigitChars[n + 1]>>
    ELSE NatToString(n \div 10) \o <<DigitChars[(n % 10) + 1]>>

RECURSIVE StripTrailingZeros(_)
StripTrailingZeros(s) ==
    IF s # <<>> /\ s[Len(s)] = "0" THEN StripTrailingZeros(SubSeq(s, 1, Len(s) - 1)) ELSE s

\* The MaxFracDigits fraction digits of a count of units below Scale.
FractionDigits(units) ==
    LET ds == NatToString(units)
    IN  [i \in 1..(MaxFracDigits - Len(ds)) |-> "0"] \o ds

\* String(n) for a number: the shortest decimal text, without exponent.
NumberToString(n) ==
    LET fraction == StripTrailingZeros(FractionDigits(MathAbs(n) % Scale))
    IN  (IF n < 0 THEN <<"-">> ELSE <<>>)
        \o NatToString(MathAbs(n) \div Scale)
        \o (IF fraction = <<>> THEN <<>> ELSE <<".">> \o fraction)

\* A variant that gives the date part to a strict date only.
calculateParsingConfidenceStrictDate(dateStr, descriptionStr, amountStr) ==
    LET dateConfidence ==
            IF MatchesDatePattern(dateStr) THEN 4 ELSE 0
        amountConfidence ==
            IF MatchesAmountPattern(amountStr) THEN 4
            ELSE IF ~isNaN(parseFloat(amountStr)) THEN 2 ELSE 0
        descriptionConfidence ==
            IF Len(descriptionStr) > 5 THEN 2
            ELSE IF Len(descriptionStr) > 0 THEN 1 ELSE 0
    IN  Min2(dateConfidence + amountConfidence + descriptionConfidence, 10)

\* calculateParsingConfidence, counted in tenths (0.4 is 4, the cap 1.0 is 10).
calculateParsingConfidence(dateStr, descriptionStr, amountStr) ==
    LET dateConfidence ==
            IF MatchesDatePattern(dateStr) THEN 4
            ELSE IF Len(dateStr) > 0 THEN 2 ELSE 0
        amountConfidence ==
            IF MatchesAmountPattern(amountStr) THEN 4
            ELSE IF ~isNaN(parseFloat(amountStr)) THEN 2 ELSE 0
        descriptionConfidence ==
            IF Len(descriptionStr) > 5 THEN 2
            ELSE IF Len(descriptionStr) > 0 THEN 1 ELSE 0
    IN  Min2(dateConfidence + amountConfidence + descriptionConfidence, 10)

\* String(v || '')
StringOr(v) == IF Truthy(v) THEN v ELSE <<>>

S_0 == <<"0">>
S_0_00 == <<"0", ".", "0", "0">>

\* debitStr && debitStr !== '' && debitStr !== '0' && debitStr !== '0.00'
HasAmount(str) == str # <<>> /\ str # S_0 /\ str # S_0_00

\* A variant that also skips a row whose single amount parses to 0.
RowAmountSkippingZero(row, mapping) ==
    IF Truthy(mapping.debitColumn) /\ Truthy(mapping.creditColumn)
    THEN LET debitStr == Trim(StringOr(Get(row, mapping.debitColumn)))
             creditStr == Trim(StringOr(Get(row, mapping.creditColumn)))
         IN  IF HasAmount(debitStr) THEN <<parseAmount(debitStr), TRUE>>
             ELSE IF HasAmount(creditStr) THEN <<parseAmount(creditStr), FALSE>>
             ELSE <<>>
    ELSE IF Truthy(mapping.amountColumn)
    THEN LET amountStr == StringOr(Get(row, mapping.amountColumn))
         IN  IF amountStr = <<>> \/ parseAmount(amountStr) = 0 THEN <<>>
             ELSE <<parseAmount(amountStr), parseAmount(amountStr) < 0>>
    ELSE <<>>

\* The amount and the debit flag of a row, <<amount, isDebit>>, or <<>> when
\* the row is skipped for want of an amount.
RowAmount(row, mapping) ==
    IF Truthy(mapping.debitColumn) /\ Truthy(mapping.creditColumn)
    THEN LET debitStr == Trim(StringOr(Get(row, mapping.debitColumn)))
             creditStr == Trim(StringOr(Get(row, mapping.creditColumn)))
         IN  IF HasAmount(debitStr) THEN <<parseAmount(debitStr), TRUE>>
             ELSE IF HasAmount(creditStr) THEN <<parseAmount(creditStr), FALSE>>
             ELSE <<>>
    ELSE IF Truthy(mapping.amountColumn)
    THEN LET amountStr == StringOr(Get(row, mapping.amountColumn))
         IN  IF amountStr = <<>> THEN <<>>
             ELSE <<parseAmount(amountStr), parseAmount(amountStr) < 0>>
    ELSE <<>>

DUPLICATE_REASON == "Similar transaction found (date, amount, description)"

\* A variant that keeps the sign of the parsed amount.
StoredAmountSigned(amount) == amount

\* amount: Math.abs(amount): stored as positive, the type tells income from expense.
StoredAmount(amount) == MathAbs(amount)

\* if (isDuplicate) { transaction.isDuplicate = true; transaction.duplicateReason = ... }
\* A field that is not set reads FALSE (isDuplicate) or UNDEFINED (duplicateReason).
FlagDuplicate(transaction, existing) ==
    IF checkForDuplicates(transaction, existing)
    THEN [transaction EXCEPT !.isDuplicate = TRUE, !.duplicateReason = DUPLICATE_REASON]
    ELSE transaction

\* One iteration of the loop over the rows: <<>> when the row is skipped
\* (continue), else <<transaction>> for the candidate that is pushed.
ProcessOneRow(row, mapping, existing, id) ==
    LET dateStr == StringOr(Get(row, mapping.dateColumn))
        descriptionStr == StringOr(Get(row, mapping.descriptionColumn))
        amountAndFlag == RowAmount(row, mapping)
        amount == amountAndFlag[1]
        isDebit == amountAndFlag[2]
        transaction ==
            [id |-> id,
             date |-> smartImport_parseDate(dateStr),
             description |-> descriptionStr,
             amount |-> StoredAmount(amount),
             category |-> IF Truthy(mapping.categoryColumn)
                          THEN StringOr(Get(row, mapping.categoryColumn))
                          ELSE <<>>,
             type |-> smartImport_determineTransactionType(
                          descriptionStr,
                          IF Truthy(mapping.typeColumn)
                          THEN JSString(Get(row, mapping.typeColumn))
                          ELSE UNDEFINED,
                          <<isDebit>>),
             confidence |-> calculateParsingConfidence(
                                dateStr, descriptionStr, NumberToString(amount)),
             originalRow |-> row,
             isDuplicate |-> FALSE,
             duplicateReason |-> UNDEFINED]
    IN  IF amountAndFlag = <<>> THEN <<>>
        ELSE IF dateStr = <<>> \/ descriptionStr = <<>> THEN <<>>
        ELSE <<FlagDuplicate(transaction, existing)>>

\* loadTransactions(): the stored list, parsed afresh on every call.
loadTransactions(storage) == storage

\* crypto.randomUUID(): the n-th identifier issued; no two are equal.
randomUUID(n) == <<"uuid", n>>

\* The clock readings new Date().toISOString() may give.
ClockReadings == {<<"2","0","2","4","-","0","2","-","0","1","T","0","9",":","0","0",":","0","0",".","0","0","0","Z">>}

\* addTransaction(transaction): the stored list with the new record appended.
addTransaction(storage, transaction, id, createdAt) ==
    Append(loadTransactions(storage),
           [amount |-> transaction.amount,
            description |-> transaction.description,
            category |-> transaction.category,
            type |-> transaction.type,
            date |-> transaction.date,
            id |-> id,
            createdAt |-> createdAt])

(***************************************************************************)
(* Storage: updateTransaction and deleteTransaction.                       *)
(***************************************************************************)
\* saveToStorage(key, data): the stored list afterwards; a setItem that
\* throws is caught and leaves what was stored.
saveToStorage(storage, data, setItemThrows) == IF setItemThrows THEN storage ELSE data

\* transactions.findIndex(t => t.id === id), counted from 1; 0 when there is none.
FindIndex(transactions, id) ==
    IF \E i \in 1..Len(transactions) : transactions[i].id = id
    THEN CHOOSE i \in 1..Len(transactions) :
            /\ transactions[i].id = id
            /\ \A j \in 1..(i - 1) : transactions[j].id # id
    ELSE 0

\* { ...transaction, ...updates }
Spread(transaction, updates) ==
    [k \in DOMAIN transaction \cup DOMAIN updates |->
        IF k \in DOMAIN updates THEN updates[k] ELSE transaction[k]]

\* A variant that spreads the updates over every record.
updateTransactionEveryRecord(storage, id, updates, setItemThrows) ==
    IF FindIndex(loadTransactions(storage), id) = 0
    THEN [returned |-> FALSE, storage |-> storage]
    ELSE [returned |-> TRUE,
          storage |-> saveToStorage(storage,
                          [i \in 1..Len(storage) |-> Spread(loadTransactions(storage)[i], updates)],
                          setItemThrows)]

\* updateTransaction(id, updates): the value returned and the stored list afterwards.
updateTransaction(storage, id, updates, setItemThrows) ==
    IF FindIndex(loadTransactions(storage), id) = 0
    THEN [returned |-> FALSE, storage |-> storage]
    ELSE [returned |-> TRUE,
          storage |-> saveToStorage(storage,
                          [loadTransactions(storage) EXCEPT
                              ![FindIndex(loadTransactions(storage), id)] = Spread(@, updates)],
                          setItemThrows)]

\* deleteTransaction(id): the value returned and the stored list afterwards.
deleteTransaction(storage, id, setItemThrows) ==
    IF Len(SelectSeq(loadTransactions(storage), LAMBDA t : t.id # id))
           = Len(loadTransactions(storage))
    THEN [returned |-> FALSE, storage |-> storage]
    ELSE [returned |-> TRUE,
          storage |-> saveToStorage(storage,
                          SelectSeq(loadTransactions(storage), LAMBDA t : t.id # id),
                          setItemThrows)]

(***************************************************************************)
(* The exporter: the stored transactions as CSV text.                      *)
(***************************************************************************)
\* parts.join(separator)
RECURSIVE Join(_, _)
Join(parts, separator) ==
    IF parts = <<>> THEN <<>>
    ELSE IF Len(parts) = 1 THEN parts[1]
    ELSE parts[1] \o <<separator>> \o Join(Tail(parts), separator)

\* s.replace(/"/g, '""')
RECURSIVE DoubleQuotes(_)
DoubleQuotes(s) ==
    IF s = <<>> THEN <<>>
    ELSE (IF Head(s) = QUOTE THEN <<QUOTE, QUOTE>> ELSE <<Head(s)>>) \o DoubleQuotes(Tail(s))

\* `"${text.replace(/"/g, '""')}"`
QuotedField(text) == <<QUOTE>> \o DoubleQuotes(text) \o <<QUOTE>>

\* The text of a transaction type.
TypeText(type) == IF type = "income" THEN K_income ELSE K_expense

\* The cells of one transaction, joined by commas.
ExportLine(transaction) ==
    Join(<<transaction.date,
           QuotedField(transaction.description),
           QuotedField(transaction.category),
           TypeText(transaction.type),
           NumberToString(transaction.amount),
           transaction.createdAt>>, ",")

\* csvContent: the header line and one line for every transaction.
handleExportData(transactions) ==
    Join(<<Join(basilHeaders, ",")>>
         \o [i \in 1..Len(transactions) |-> ExportLine(transactions[i])], NEWLINE)

(***************************************************************************)
(* Grouping of the candidates by description.                              *)
(***************************************************************************)
\* \w: the characters a regular expression counts as word characters.
WordChars ==
    {LowerCase[i] : i \in 1..Len(LowerCase)} \cup {UpperCase[i] : i \in 1..Len(UpperCase)}
    \cup Digits \cup {"_"}

\* s.replace(/\s+/g, ' '): every run of white space becomes one space.
RECURSIVE CollapseWhiteSpace(_)
CollapseWhiteSpace(s) ==
    IF s = <<>> THEN <<>>
    ELSE IF Head(s) \in WhiteSpace
         THEN IF Len(s) > 1 /\ s[2] \in WhiteSpace
              THEN CollapseWhiteSpace(Tail(s))
              ELSE <<" ">> \o CollapseWhiteSpace(Tail(s))
         ELSE <<Head(s)>> \o CollapseWhiteSpace(Tail(s))

\* Lower case, without digits, without what is neither a word character nor
\* white space, runs of white space collapsed, trimmed.
normalizeDescription(description) ==
    Trim(CollapseWhiteSpace(
        SelectSeq(RemoveAll(ToLowerCase(description), Digits),
                  LAMBDA c : c \in WordChars \cup WhiteSpace)))

DUPLICATE_SUFFIX == <<"_", "_", "D", "U", "P", "L", "I", "C", "A", "T", "E">>

\* A variant with one key for flagged and unflagged candidates.
GroupKeyWithoutFlag(transaction) == normalizeDescription(transaction.description)

\* transaction.isDuplicate ? `${normalized}__DUPLICATE` : normalized
GroupKey(transaction) ==
    IF transaction.isDuplicate
    THEN normalizeDescription(transaction.description) \o DUPLICATE_SUFFIX
    ELSE normalizeDescription(transaction.description)

\* The Map after the first loop, as the sequence of its entries <<key, members>>
\* in insertion order.
RECURSIVE GroupEntries(_, _)
GroupEntries(transactions, groups) ==
    IF transactions = <<>> THEN groups
    ELSE LET key == GroupKey(Head(transactions))
         IN  GroupEntries(Tail(transactions),
                 IF \E k \in 1..Len(groups) : groups[k][1] = key
                 THEN [k \in 1..Len(groups) |->
                          IF groups[k][1] = key
                          THEN <<key, Append(groups[k][2], Head(transactions))>>
                          ELSE groups[k]]
                 ELSE Append(groups, <<key, <<Head(transactions)>>>>))

\* The first index at which pattern occurs in s, 0 when it does not.
IndexOf(s, pattern) ==
    IF Includes(s, pattern)
    THEN CHOOSE i \in 1..(Len(s) - Len(pattern) + 1) :
            /\ SubSeq(s, i, i + Len(pattern) - 1) = pattern
            /\ \A j \in 1..(i - 1) : SubSeq(s, j, j + Len(pattern) - 1) # pattern
    ELSE 0

\* s.replace(pattern, ''): without the first occurrence of pattern.
RemoveFirst(s, pattern) ==
    IF IndexOf(s, pattern) = 0 THEN s
    ELSE SubSeq(s, 1, IndexOf(s, pattern) - 1)
         \o SubSeq(s, IndexOf(s, pattern) + Len(pattern), Len(s))

\* A variant that suggests income when neither type has more members.
getMostCommonTypeIncomeOnTie(transactions) ==
    LET income == Cardinality({i \in 1..Len(transactions) : transactions[i].type = "income"})
        expense == Len(transactions) - income
    IN  IF income >= expense THEN "income" ELSE "expense"

\* The type most members have, a member without a type counting as expense;
\* income only when it has more members than expense.
getMostCommonType(transactions) ==
    LET income == Cardinality({i \in 1..Len(transactions) : transactions[i].type = "income"})
        expense == Len(transactions) - income
    IN  IF income > expense THEN "income" ELSE "expense"

S_Duplicates == <<" ", "(", "D", "u", "p", "l", "i", "c", "a", "t", "e", "s", ")">>

\* The group pushed for a Map entry.
TransactionGroup(groupKey, transactions) ==
    [description |-> IF Includes(groupKey, DUPLICATE_SUFFIX)
                     THEN RemoveFirst(groupKey, DUPLICATE_SUFFIX) \o S_Duplicates
                     ELSE RemoveFirst(groupKey, DUPLICATE_SUFFIX),
     transactions |-> transactions,
     suggestedType |-> getMostCommonType(transactions),
     suggestedCategory |-> <<>>,
     includeInImport |-> TRUE]

\* The second loop: a group for every entry with more than one member.
RECURSIVE GroupsOf(_)
GroupsOf(entries) ==
    IF entries = <<>> THEN <<>>
    ELSE (IF Len(Head(entries)[2]) > 1
          THEN <<TransactionGroup(Head(entries)[1], Head(entries)[2])>>
          ELSE <<>>) \o GroupsOf(Tail(entries))

\* A variant that returns the groups in the order of their keys.
SortBySizeKeepingOrder(result) == result

\* result.sort((a, b) => b.transactions.length - a.transactions.length): the
\* larger group first, groups of one size in the order they had (the sort is stable).
RECURSIVE SortBySize(_)
SortBySize(result) ==
    IF result = <<>> THEN <<>>
    ELSE LET sorted == SortBySize(SubSeq(result, 1, Len(result) - 1))
             last == result[Len(result)]
             before == SelectSeq(sorted, LAMBDA g :
                           Len(g.transactions) >= Len(last.transactions))
             after == SelectSeq(sorted, LAMBDA g :
                           Len(g.transactions) < Len(last.transactions))
         IN  before \o <<last>> \o after

groupTransactionsByDescription(transactions) ==
    SortBySize(GroupsOf(GroupEntries(transactions, <<>>)))

(***************************************************************************)
(* Values of the variables a specification does not use.                   *)
(***************************************************************************)
IdleLine == line = <<>> /\ delimiter = "" /\ fields = <<>>
IdleCsv == csvText = <<>> /\ csvRows = <<>>
IdleDetect == rows = <<>> /\ columnMapping = EmptyMapping
IdleImport ==
    /\ stored = <<>> /\ parsedTransactions = <<>>
    /\ rowIndex = 0 /\ loads = 0 /\ uuidCount = 0
    /\ consoleErrors = <<>>
IdleDup == newTransaction = <<>> /\ existingTransactions = <<>> /\ isDuplicate = FALSE
IdleParsers ==
    /\ dateInput = <<>> /\ dateOutput = <<>>
    /\ amountInput = <<>> /\ amountOutput = 0 /\ amountRoundTrip = 0
    /\ typeInput = <<>> /\ typeOutput = ""
IdleGroup == groupInput = <<>> /\ groupOutput = <<>>
IdleSimilarity == similarityInput = <<>> /\ similarityOutput = <<>>
IdleStorage == storageCall = <<>> /\ storageReturned = FALSE
IdleWizard ==
    /\ currentStep = "upload" /\ transactionGroups = <<>>
    /\ ungroupedTransactions = <<>> /\ selectedTransactions = {}
    /\ reviewChecked = {} /\ imported = <<>>
IdleReview == IdleSimilarity /\ IdleStorage /\ IdleWizard

(***************************************************************************)
(* SpecLine: detectDelimiter and parseCSVLine applied to one line.         *)
(***************************************************************************)
LineAlphabet == {"a", ";", ",", "\t", "|", "\"", "\\"}

InitLine ==
    /\ pc = "line"
    /\ line \in StringsUpTo(LineAlphabet, MaxLineLen)
    /\ delimiter = ""
    /\ fields = <<>>
    /\ IdleCsv /\ IdleDetect /\ IdleImport /\ IdleDup /\ IdleParsers /\ IdleGroup /\ IdleReview

DetectDelimiter ==
    /\ pc = "line"
    /\ delimiter' = detectDelimiter(line)
    /\ pc' = "detected"
    /\ UNCHANGED <<reviewVars, parserVars, groupVars, line, fields, csvVars, detectVars, importVars, dupVars>>

ParseCSVLine ==
    /\ pc \in {"line", "detected"}
    /\ \E d \in {Delimiters[k] : k \in 1..Len(Delimiters)} :
          /\ pc = "detected" => d = delimiter
          /\ delimiter' = d
          /\ fields' = parseCSVLine(line, d)
    /\ pc' = "split"
    /\ UNCHANGED <<reviewVars, parserVars, groupVars, line, csvVars, detectVars, importVars, dupVars>>

NextLine == DetectDelimiter \/ ParseCSVLine

SpecLine == InitLine /\ [][NextLine]_vars

(***************************************************************************)
(* SpecCsv: parseCSV applied to a raw text.                                *)
(***************************************************************************)
TextAlphabet == {"a", ",", ";", "\"", "\n", " "}

InitCsv ==
    /\ pc = "text"
    /\ csvText \in StringsUpTo(TextAlphabet, MaxTextLen)
    /\ csvRows = <<>>
    /\ IdleLine /\ IdleDetect /\ IdleImport /\ IdleDup /\ IdleParsers /\ IdleGroup /\ IdleReview

ParseCSV ==
    /\ pc = "text"
    /\ csvRows' = parseCSV(csvText)
    /\ pc' = "parsed"
    /\ UNCHANGED <<reviewVars, parserVars, groupVars, lineVars, csvText, detectVars, importVars, dupVars>>

NextCsv == ParseCSV

SpecCsv == InitCsv /\ [][NextCsv]_vars

(***************************************************************************)
(* SpecDetect: detectColumnMappings applied to decoded rows.  The tables   *)
(* are of two families: up to MaxHeaders distinct columns from a pool of   *)
(* bank-style names with one row of free values, and the canonical export  *)
(* header in some order, with a name possibly dropped or written in lower  *)
(* case and with extra columns.                                            *)
(***************************************************************************)
H_Debit == <<"D","e","b","i","t">>
H_Credit == <<"C","r","e","d","i","t">>
H_DebitAmount == <<"D","e","b","i","t"," ","A","m","o","u","n","t">>
H_CreditAmount == <<"C","r","e","d","i","t"," ","A","m","o","u","n","t">>
H_Memo == <<"M","e","m","o">>
H_X == <<"X">>
V_Date == <<"2","0","2","4","-","0","1","-","1","5">>
V_Amount == <<"4","5",".","6","7">>
V_Store == <<"S","t","o","r","e">>
V_Food == <<"F","o","o","d">>
V_expense == <<"e","x","p","e","n","s","e">>
V_CreatedAt == <<"2","0","2","4","-","0","1","-","1","5","T","1","0",":","3","0",":","0","0","Z">>

HeaderPool == {H_Date, H_Amount, H_DebitAmount, H_CreditAmount, H_Memo, H_X}

ValuePool == {V_Date, V_Amount, V_Store, <<>>}

DistinctSeqs(S, k) == {h \in [1..k -> S] : \A i, j \in 1..k : i # j => h[i] # h[j]}

\* The one-row tables of the first family.
FreeTables ==
    UNION {{<<[i \in 1..k |-> <<h[i], v[i]>>]>> :
               h \in DistinctSeqs(HeaderPool, k), v \in [1..k -> ValuePool]}
           : k \in 1..MaxHeaders}

Rotate(s, n) == [i \in 1..Len(s) |-> s[((i - 1 + n) % Len(s)) + 1]]
Reverse(s) == [i \in 1..Len(s) |-> s[Len(s) + 1 - i]]

CanonicalOrders ==
    {Rotate(basilHeaders, n) : n \in 0..5} \cup {Reverse(Rotate(basilHeaders, n)) : n \in 0..5}

\* A header list with its k-th name dropped (k = 0: none).
DropAt(s, k) == SelectSeq([i \in 1..Len(s) |-> IF i = k THEN <<"drop">> ELSE s[i]],
                          LAMBDA x : x # <<"drop">>)

\* A header list with its k-th name in lower case (k = 0: none).
LowerAt(s, k) == [i \in 1..Len(s) |-> IF i = k THEN ToLowerCase(s[i]) ELSE s[i]]

ColumnsBefore == {<<>>, <<H_Debit, H_Credit>>}
ColumnsAfter == {<<>>, <<H_X>>, <<H_DebitAmount>>}

CanonicalHeaderLists ==
    {pre \o body \o post :
        pre \in ColumnsBefore, post \in ColumnsAfter,
        body \in UNION {{DropAt(o, k) : k \in 0..6} \cup {LowerAt(o, k) : k \in 1..6}
                           : o \in CanonicalOrders}}

CanonicalValue(h) ==
    CASE ToLowerCase(h) = ToLowerCase(H_Date) -> V_Date
      [] ToLowerCase(h) = ToLowerCase(H_Description) -> V_Store
      [] ToLowerCase(h) = ToLowerCase(H_Category) -> V_Food
      [] ToLowerCase(h) = ToLowerCase(H_Type) -> V_expense
      [] ToLowerCase(h) = ToLowerCase(H_CreatedAt) -> V_CreatedAt
      [] OTHER -> V_Amount

RECURSIVE RowOf(_, _)
RowOf(headers, row) ==
    IF headers = <<>> THEN row
    ELSE RowOf(Tail(headers), Put(row, Head(headers), CanonicalValue(Head(headers))))

CanonicalTables ==
    {[i \in 1..n |-> RowOf(h, <<>>)] : h \in CanonicalHeaderLists, n \in 1..2}

InitDetect ==
    /\ pc = "rows"
    /\ rows \in {<<>>} \cup FreeTables \cup CanonicalTables
    /\ columnMapping = EmptyMapping
    /\ IdleLine /\ IdleCsv /\ IdleImport /\ IdleDup /\ IdleParsers /\ IdleGroup /\ IdleReview

DetectColumnMappings ==
    /\ pc = "rows"
    /\ columnMapping' = detectColumnMappings(rows)
    /\ pc' = "mapped"
    /\ UNCHANGED <<reviewVars, parserVars, groupVars, lineVars, csvVars, rows, importVars, dupVars>>

NextDetect == DetectColumnMappings

SpecDetect == InitDetect /\ [][NextDetect]_vars

(***************************************************************************)
(* Specification of the duplicate detector: checkForDuplicates on a        *)
(* candidate and a list of existing records.                               *)
(***************************************************************************)
D_Jan15 == <<"2", "0", "2", "4", "-", "0", "1", "-", "1", "5">>
D_Jan16 == <<"2", "0", "2", "4", "-", "0", "1", "-", "1", "6">>
D_Jan18 == <<"2", "0", "2", "4", "-", "0", "1", "-", "1", "8">>
D_Jan19 == <<"2", "0", "2", "4", "-", "0", "1", "-", "1", "9">>
D_Jan20 == <<"2", "0", "2", "4", "-", "0", "1", "-", "2", "0">>
D_Jan30 == <<"2", "0", "2", "4", "-", "0", "1", "-", "3", "0">>
D_Feb02 == <<"2", "0", "2", "4", "-", "0", "2", "-", "0", "2">>
D_Month13 == <<"2", "0", "2", "4", "-", "1", "3", "-", "0", "1">>
T_abc == <<"a", "b", "c">>
T_GroceryStore == <<"G", "r", "o", "c", "e", "r", "y", " ", "S", "t", "o", "r", "e">>
T_GROCERY_STORE == <<"G", "R", "O", "C", "E", "R", "Y", " ", "S", "T", "O", "R", "E">>
T_GroceryStor == <<"G", "r", "o", "c", "e", "r", "y", " ", "S", "t", "o", "r">>
T_GasStation == <<"G", "a", "s", " ", "S", "t", "a", "t", "i", "o", "n">>
T_abcde == <<"a", "b", "c", "d", "e">>
T_abcdx == <<"a", "b", "c", "d", "x">>
A_45_67 == <<"4", "5", ".", "6", "7">>
A_45_675 == <<"4", "5", ".", "6", "7", "5">>
A_45_70 == <<"4", "5", ".", "7", "0">>
A_32_10 == <<"3", "2", ".", "1", "0">>

\* A candidate as the importer and the tests build it, with the three fields
\* checkForDuplicates reads.
Candidate(date, description, amount) ==
    [id |-> randomUUID(0), date |-> date, description |-> description,
     amount |-> amount, category |-> <<>>, type |-> UNDEFINED, confidence |-> 9,
     originalRow |-> <<>>, isDuplicate |-> FALSE, duplicateReason |-> UNDEFINED]

\* A stored record.
Record(n, date, description, amount) ==
    [id |-> <<"stored", n>>, amount |-> amount, description |-> description,
     category |-> <<"F","o","o","d">>, type |-> "expense", date |-> date,
     createdAt |-> V_CreatedAt]

CandidateDates == {D_Jan15, D_Jan18, D_Jan19, D_Jan20, D_Feb02, D_Month13, <<>>}
CandidateDescriptions == {T_GroceryStore, T_GROCERY_STORE, T_GroceryStor, T_abcde, <<>>}
CandidateAmounts == {parseAmount(A_45_67), parseAmount(A_45_675), parseAmount(A_45_70)}

ExistingPool ==
    {Record(1, D_Jan15, T_GroceryStore, parseAmount(A_45_67)),
     Record(2, D_Jan30, T_GroceryStore, parseAmount(A_45_67)),
     Record(3, <<>>, T_GroceryStore, parseAmount(A_45_67)),
     Record(4, D_Jan15, T_abcdx, parseAmount(A_45_67)),
     Record(5, D_Jan15, <<>>, parseAmount(A_45_67)),
     Record(6, D_Jan16, T_GasStation, parseAmount(A_32_10))}

\* The lists of at most n distinct records of the pool.
RecordLists(pool, n) ==
    {l \in UNION {[1..k -> pool] : k \in 0..n} :
        \A i, j \in 1..Len(l) : i # j => l[i] # l[j]}

InitDup ==
    /\ pc = "ready"
    /\ newTransaction \in {Candidate(d, s, a) : d \in CandidateDates,
                               s \in CandidateDescriptions, a \in CandidateAmounts}
    /\ existingTransactions \in RecordLists(ExistingPool, MaxExisting)
    /\ isDuplicate = FALSE
    /\ IdleLine /\ IdleCsv /\ IdleDetect /\ IdleImport /\ IdleParsers /\ IdleGroup /\ IdleReview

CheckForDuplicates ==
    /\ pc = "ready"
    /\ isDuplicate' = checkForDuplicates(newTransaction, existingTransactions)
    /\ pc' = "checked"
    /\ UNCHANGED <<reviewVars, parserVars, groupVars, lineVars, csvVars, detectVars, importVars,
                   newTransaction, existingTransactions>>

NextDup == CheckForDuplicates

SpecDup == InitDup /\ [][NextDup]_vars

(***************************************************************************)
(* Specification of an import: processImportedTransactions runs row by     *)
(* row over a batch; once it has returned, the caller may store accepted   *)
(* candidates with addTransaction and import again.                        *)
(***************************************************************************)
D_Slash == <<"0", "1", "/", "1", "5", "/", "2", "0", "2", "4">>
T_Salary == <<"S", "a", "l", "a", "r", "y">>
A_Minus45_67 == <<"-", "4", "5", ".", "6", "7">>
A_Paren45_67 == <<"(", "4", "5", ".", "6", "7", ")">>
A_Dollar1234_50 == <<"$", "1", ",", "2", "3", "4", ".", "5", "0">>
A_invalid == <<"i", "n", "v", "a", "l", "i", "d">>
A_0 == <<"0">>
A_0_00 == <<"0", ".", "0", "0">>
V_Credit == <<"C", "r", "e", "d", "i", "t">>
V_xx == <<"x", "x">>
S_Uncategorized == <<"U", "n", "c", "a", "t", "e", "g", "o", "r", "i", "z", "e", "d">>

AmountMapping ==
    [EmptyMapping EXCEPT !.dateColumn = H_Date, !.descriptionColumn = H_Description,
                         !.amountColumn = H_Amount]
DebitCreditMapping ==
    [EmptyMapping EXCEPT !.dateColumn = H_Date, !.descriptionColumn = H_Description,
                         !.debitColumn = H_Debit, !.creditColumn = H_Credit]
TypedMapping == [AmountMapping EXCEPT !.typeColumn = H_Type]
NoAmountMapping ==
    [EmptyMapping EXCEPT !.dateColumn = H_Date, !.descriptionColumn = H_Description]

AmountRow(date, description, amount) ==
    << <<H_Date, date>>, <<H_Description, description>>, <<H_Amount, amount>> >>
DebitCreditRow(date, description, debit, credit) ==
    << <<H_Date, date>>, <<H_Description, description>>,
       <<H_Debit, debit>>, <<H_Credit, credit>> >>
TypedRow(date, description, amount, type) ==
    << <<H_Date, date>>, <<H_Description, description>>, <<H_Amount, amount>>,
       <<H_Type, type>> >>

\* Batches of one row: each kind of mapping with the texts a column may hold.
AmountRows ==
    {AmountRow(d, s, a) :
        d \in {D_Jan15, D_Slash, T_abc, <<>>},
        s \in {T_GroceryStore, T_Salary, <<>>},
        a \in {A_45_67, A_Minus45_67, A_Paren45_67, A_Dollar1234_50, A_invalid, A_0, <<>>}}
DebitCreditRows ==
    {DebitCreditRow(D_Jan15, s, a, b) :
        s \in {T_GroceryStore, T_Salary},
        a \in {A_45_67, A_Minus45_67, A_0_00, <<>>},
        b \in {A_32_10, A_0, <<>>}}
TypedRows ==
    {TypedRow(D_Jan15, s, a, ty) :
        s \in {T_GroceryStore, T_Salary},
        a \in {A_45_67, A_Minus45_67},
        ty \in {V_expense, V_Credit, V_xx, <<>>}}

\* Batches of up to MaxRows rows under the single amount mapping.
BatchRows ==
    {AmountRow(D_Jan15, T_GroceryStore, A_45_67),
     AmountRow(D_Jan16, T_GasStation, A_32_10),
     AmountRow(D_Jan18, T_GROCERY_STORE, A_Minus45_67)}

ImportInputs ==
    {<<AmountMapping, <<r>>>> : r \in AmountRows}
    \cup {<<DebitCreditMapping, <<r>>>> : r \in DebitCreditRows}
    \cup {<<TypedMapping, <<r>>>> : r \in TypedRows}
    \cup {<<NoAmountMapping, <<r>>>> : r \in {AmountRow(D_Jan15, T_GroceryStore, A_45_67)}}
    \cup {<<AmountMapping, <<r>>>> : r \in {DebitCreditRow(D_Jan15, T_GroceryStore, A_45_67, <<>>)}}
    \cup {<<AmountMapping, b>> : b \in UNION {[1..k -> BatchRows] : k \in 0..MaxRows}}

StoredLists ==
    {<<>>,
     <<Record(1, D_Jan15, T_GroceryStore, parseAmount(A_45_67))>>,
     <<Record(6, D_Jan16, T_GasStation, parseAmount(A_32_10)),
       Record(1, D_Jan15, T_GroceryStore, parseAmount(A_45_67))>>}

InitImport ==
    /\ pc = "ready"
    /\ \E input \in ImportInputs : columnMapping = input[1] /\ rows = input[2]
    /\ stored \in StoredLists
    /\ parsedTransactions = <<>>
    /\ rowIndex = 0 /\ loads = 0 /\ uuidCount = 0
    /\ consoleErrors = <<>>
    /\ IdleLine /\ IdleCsv /\ IdleDup /\ IdleParsers /\ IdleGroup /\ IdleReview

\* processImportedTransactions is entered: existingTransactions = loadTransactions().
BeginImport ==
    /\ pc \in {"ready", "returned"}
    /\ uuidCount + Len(rows) <= MaxUuids
    /\ existingTransactions' = loadTransactions(stored)
    /\ loads' = 1
    /\ parsedTransactions' = <<>>
    /\ rowIndex' = 1
    /\ consoleErrors' = <<>>
    /\ pc' = "processing"
    /\ UNCHANGED <<reviewVars, parserVars, groupVars, lineVars, csvVars, detectVars, stored, uuidCount,
                   newTransaction, isDuplicate>>

\* A variant of the loop body that remembers each candidate as an existing record.
ProcessRowRemembering ==
    /\ pc = "processing"
    /\ rowIndex <= Len(rows)
    /\ parsedTransactions' =
          parsedTransactions \o ProcessOneRow(rows[rowIndex], columnMapping,
                                              existingTransactions,
                                              randomUUID(uuidCount + 1))
    /\ uuidCount' = uuidCount + (Len(parsedTransactions') - Len(parsedTransactions))
    /\ existingTransactions' =
          existingTransactions
              \o SubSeq(parsedTransactions', Len(parsedTransactions) + 1,
                        Len(parsedTransactions'))
    /\ rowIndex' = rowIndex + 1
    /\ UNCHANGED <<reviewVars, parserVars, groupVars, pc, lineVars, csvVars, detectVars, stored, loads,
                   consoleErrors, newTransaction, isDuplicate>>

\* One iteration of for (const row of rows): a candidate that is pushed has
\* taken one identifier.
ProcessRow ==
    /\ pc = "processing"
    /\ rowIndex <= Len(rows)
    /\ parsedTransactions' =
          parsedTransactions \o ProcessOneRow(rows[rowIndex], columnMapping,
                                              existingTransactions,
                                              randomUUID(uuidCount + 1))
    /\ uuidCount' = uuidCount + (Len(parsedTransactions') - Len(parsedTransactions))
    /\ rowIndex' = rowIndex + 1
    /\ UNCHANGED <<reviewVars, parserVars, groupVars, pc, lineVars, csvVars, detectVars, stored, loads,
                   consoleErrors, dupVars>>

\* The row is not skipped for want of a date, a description or an amount:
\* the loop body reaches the candidate it builds.
ReachesCandidate(row, mapping) ==
    /\ RowAmount(row, mapping) # <<>>
    /\ StringOr(Get(row, mapping.dateColumn)) # <<>>
    /\ StringOr(Get(row, mapping.descriptionColumn)) # <<>>

\* A variant in which the catch ends the loop.
ProcessRowFaultEndingLoop ==
    /\ pc = "processing"
    /\ rowIndex <= Len(rows)
    /\ ReachesCandidate(rows[rowIndex], columnMapping)
    /\ consoleErrors' = Append(consoleErrors, rows[rowIndex])
    /\ rowIndex' = Len(rows) + 1
    /\ UNCHANGED <<reviewVars, parserVars, groupVars, pc, lineVars, csvVars, detectVars, stored, loads,
                   parsedTransactions, uuidCount, dupVars>>

\* One iteration in which building the candidate raises (crypto.randomUUID()
\* where the environment does not provide it): the catch logs the row and
\* the loop goes on with the next row.
ProcessRowFault ==
    /\ pc = "processing"
    /\ rowIndex <= Len(rows)
    /\ ReachesCandidate(rows[rowIndex], columnMapping)
    /\ consoleErrors' = Append(consoleErrors, rows[rowIndex])
    /\ rowIndex' = rowIndex + 1
    /\ UNCHANGED <<reviewVars, parserVars, groupVars, pc, lineVars, csvVars, detectVars, stored, loads,
                   parsedTransactions, uuidCount, dupVars>>

\* return parsedTransactions
FinishImport ==
    /\ pc = "processing"
    /\ rowIndex > Len(rows)
    /\ pc' = "returned"
    /\ UNCHANGED <<reviewVars, parserVars, groupVars, lineVars, csvVars, detectVars, importVars, dupVars>>

\* The fields the wizard hands to addTransaction for an accepted candidate.
ImportedFields(transaction) ==
    [amount |-> transaction.amount,
     description |-> transaction.description,
     category |-> IF Truthy(transaction.category) THEN transaction.category
                  ELSE S_Uncategorized,
     type |-> transaction.type,
     date |-> transaction.date]

\* The caller stores one of the returned candidates.
AddTransaction ==
    /\ pc = "returned"
    /\ Len(stored) < MaxStored
    /\ uuidCount < MaxUuids
    /\ \E i \in 1..Len(parsedTransactions), createdAt \in ClockReadings :
          stored' = addTransaction(stored, ImportedFields(parsedTransactions[i]),
                                   randomUUID(uuidCount + 1), createdAt)
    /\ uuidCount' = uuidCount + 1
    /\ UNCHANGED <<reviewVars, parserVars, groupVars, pc, lineVars, csvVars, detectVars, parsedTransactions, rowIndex,
                   loads, consoleErrors, dupVars>>

NextImport == BeginImport \/ ProcessRow \/ ProcessRowFault \/ FinishImport \/ AddTransaction

SpecImport == InitImport /\ [][NextImport]_vars

(***************************************************************************)
(* Specification of parseDate (data-parsers.ts): one text is handed in and *)
(* the normalized date comes back.                                         *)
(***************************************************************************)
Y_2024 == <<"2", "0", "2", "4">>
Y_1999 == <<"1", "9", "9", "9">>
T_Time == <<"1", "0", ":", "3", "0", ":", "0", "0">>
T_invalid == <<"i", "n", "v", "a", "l", "i", "d">>
T_na == <<"n", "/", "a">>

SlashDate(first, second, year) == first \o <<"/">> \o second \o <<"/">> \o year

FirstGroups == {<<"0">>, <<"1">>, <<"0", "1">>, <<"3">>, <<"0", "3">>, <<"1", "2">>,
                <<"1", "3">>, <<"3", "1">>}
SecondGroups == {<<"0", "0">>, <<"1">>, <<"4">>, <<"0", "4">>, <<"1", "2">>, <<"1", "5">>,
                 <<"3", "1">>}

SlashDates == {SlashDate(f, s, y) : f \in FirstGroups, s \in SecondGroups, y \in {Y_2024, Y_1999}}

ShortYearDates == {SlashDate(f, <<"1", "5">>, y) :
                     f \in {<<"1">>, <<"1", "2">>}, y \in {<<"2", "4">>, <<"5", "1">>}}

\* What may follow a date: nothing, or a space or a T and a time.
DateSuffixes == {<<>>, <<" ">> \o T_Time, <<"T">> \o T_Time \o <<"Z">>, <<"T">> \o T_Time,
                 <<" ", "2", ":", "4", "5", " ", "P", "M">>}

IsoDates == {D_Jan15, D_Feb02, D_Month13, <<"1", "9", "9", "9", "-", "1", "2", "-", "3", "1">>}

IsoTexts == {d \o s : d \in IsoDates, s \in DateSuffixes}

SlashTexts == {SlashDate(f, <<"1", "5">>, Y_2024) \o s :
                 f \in {<<"0", "1">>, <<"1", "5">>}, s \in DateSuffixes}

\* Texts no format accepts and that hold no digit.
UnparseableDates == {T_invalid, T_abc, T_na, <<>>, <<"-", "-">>, <<" ">>, <<"J", "a", "n">>}

Wrapped(texts) == texts \cup {<<" ">> \o s \o <<" ">> : s \in texts}
                        \cup {<<QUOTE>> \o s \o <<QUOTE>> : s \in texts}

DateInputs ==
    SlashDates \cup ShortYearDates \cup SlashTexts
    \cup Wrapped(IsoTexts) \cup Wrapped(UnparseableDates)

InitDate ==
    /\ pc = "ready"
    /\ dateInput \in DateInputs
    /\ dateOutput = <<>>
    /\ amountInput = <<>> /\ amountOutput = 0 /\ amountRoundTrip = 0
    /\ typeInput = <<>> /\ typeOutput = ""
    /\ IdleLine /\ IdleCsv /\ IdleDetect /\ IdleImport /\ IdleDup /\ IdleGroup /\ IdleReview

ParseDate ==
    /\ pc = "ready"
    /\ dateOutput' = parseDate(dateInput)
    /\ pc' = "dateParsed"
    /\ UNCHANGED <<reviewVars, lineVars, csvVars, detectVars, importVars, dupVars, groupVars,
                   dateInput, amountInput, amountOutput, amountRoundTrip,
                   typeInput, typeOutput>>

NextDate == ParseDate

SpecDate == InitDate /\ [][NextDate]_vars

(***************************************************************************)
(* Specification of parseAmount: a text is handed in, the number comes     *)
(* back, and its String() is handed in again.                              *)
(***************************************************************************)
AmountCores ==
    {A_45_67, A_0, A_0_00, A_invalid, <<>>,
     <<"0", ".", "0", "1">>,
     <<"1", ",", "2", "3", "4", ".", "5", "6">>,
     <<"4", "5", ".", ".", "6", "7">>,
     <<"4", "5", ",", "6", "7">>,
     <<".", "5">>,
     <<"5", ".">>,
     <<"1", ".", "5", "e", "2">>,
     <<"3", "2", ".", "1", "0", " ", "E", "U", "R">>}

\* What may stand before the digits.
AmountSigns == {<<>>, <<"-">>, <<"+">>, <<"-", " ">>, <<"-", "-">>}

AmountCurrencies == {<<>>, <<"$">>, <<"€">>, <<"$", " ">>, <<"C", "$">>}

SignedAmounts ==
    {c \o g \o a : c \in AmountCurrencies, g \in AmountSigns, a \in AmountCores}
    \cup {g \o c \o a : c \in AmountCurrencies, g \in AmountSigns, a \in AmountCores}

AmountInputs ==
    SignedAmounts
    \cup {<<"(">> \o s \o <<")">> : s \in SignedAmounts}
    \cup {<<" ">> \o s \o <<" ">> : s \in SignedAmounts}
    \cup {<<" ", "(">> \o s \o <<")", " ">> : s \in SignedAmounts}

InitAmount ==
    /\ pc = "ready"
    /\ amountInput \in AmountInputs
    /\ amountOutput = 0 /\ amountRoundTrip = 0
    /\ dateInput = <<>> /\ dateOutput = <<>>
    /\ typeInput = <<>> /\ typeOutput = ""
    /\ IdleLine /\ IdleCsv /\ IdleDetect /\ IdleImport /\ IdleDup /\ IdleGroup /\ IdleReview

ParseAmount ==
    /\ pc = "ready"
    /\ amountOutput' = parseAmount(amountInput)
    /\ pc' = "amountParsed"
    /\ UNCHANGED <<reviewVars, lineVars, csvVars, detectVars, importVars, dupVars, groupVars,
                   dateInput, dateOutput, amountInput, amountRoundTrip,
                   typeInput, typeOutput>>

\* parseAmount(String(amount)) of the number that came back
ParseAmountAgain ==
    /\ pc = "amountParsed"
    /\ amountRoundTrip' = parseAmount(NumberToString(amountOutput))
    /\ pc' = "amountReparsed"
    /\ UNCHANGED <<reviewVars, lineVars, csvVars, detectVars, importVars, dupVars, groupVars,
                   dateInput, dateOutput, amountInput, amountOutput,
                   typeInput, typeOutput>>

NextAmount == ParseAmount \/ ParseAmountAgain

SpecAmount == InitAmount /\ [][NextAmount]_vars

(***************************************************************************)
(* Specification of determineTransactionType (data-parsers.ts).            *)
(***************************************************************************)
T_Payroll == <<"P", "a", "y", "r", "o", "l", "l">>
T_TransferIn == <<"T", "r", "a", "n", "s", "f", "e", "r", " ", "i", "n">>
T_ATMWithdrawal == <<"A", "T", "M", " ", "w", "i", "t", "h", "d", "r", "a", "w", "a", "l">>
T_SALARY == <<"S", "A", "L", "A", "R", "Y">>

TypeDescriptions ==
    {T_GroceryStore, T_GasStation, T_ATMWithdrawal, T_Salary, T_SALARY, T_Payroll,
     T_TransferIn, <<>>}

TypeHints ==
    {UNDEFINED, <<>>, K_income, K_expense, V_Credit, V_xx,
     <<"I", "n", "c", "o", "m", "e">>,
     <<"E", "X", "P", "E", "N", "S", "E">>,
     <<" ", "e", "x", "p", "e", "n", "s", "e", " ">>,
     <<"D", "i", "r", "e", "c", "t", " ", "D", "e", "p", "o", "s", "i", "t">>,
     <<"D", "E", "B", "I", "T">>,
     <<"W", "i", "t", "h", "d", "r", "a", "w", "a", "l">>,
     <<"D", "e", "b", "i", "t", "/", "C", "r", "e", "d", "i", "t">>,
     <<"D", "R">>}

DebitFlags == {<<>>, <<TRUE>>, <<FALSE>>}

InitType ==
    /\ pc = "ready"
    /\ typeInput \in [description : TypeDescriptions, typeColumn : TypeHints,
                      isDebit : DebitFlags]
    /\ typeOutput = ""
    /\ dateInput = <<>> /\ dateOutput = <<>>
    /\ amountInput = <<>> /\ amountOutput = 0 /\ amountRoundTrip = 0
    /\ IdleLine /\ IdleCsv /\ IdleDetect /\ IdleImport /\ IdleDup /\ IdleGroup /\ IdleReview

DetermineTransactionType ==
    /\ pc = "ready"
    /\ typeOutput' = determineTransactionType(typeInput.description, typeInput.typeColumn,
                                              typeInput.isDebit)
    /\ pc' = "typed"
    /\ UNCHANGED <<reviewVars, lineVars, csvVars, detectVars, importVars, dupVars, groupVars,
                   dateInput, dateOutput, amountInput, amountOutput, amountRoundTrip,
                   typeInput>>

NextType == DetermineTransactionType

SpecType == InitType /\ [][NextType]_vars

(***************************************************************************)
(* Specification of groupTransactionsByDescription: a list of up to        *)
(* MaxGrouped candidates is handed in and the groups come back.            *)
(***************************************************************************)
T_Starbucks123 == <<"S", "t", "a", "r", "b", "u", "c", "k", "s", " ", "#", "1", "2", "3">>
T_Starbucks456 == <<"S", "t", "a", "r", "b", "u", "c", "k", "s", " ", "#", "4", "5", "6">>
T_STARBUCKS == <<"S", "T", "A", "R", "B", "U", "C", "K", "S", " ", " ", "!">>

\* What a candidate in the list may be: <<description, isDuplicate, type>>.
GroupedPool ==
    {<<T_Starbucks123, FALSE, UNDEFINED>>,
     <<T_Starbucks456, FALSE, "income">>,
     <<T_STARBUCKS, TRUE, "income">>,
     <<T_GasStation, FALSE, "expense">>}

\* The i-th candidate of a list, with the i-th identifier.
GroupedCandidate(i, choice) ==
    [id |-> randomUUID(i), description |-> choice[1], isDuplicate |-> choice[2],
     type |-> choice[3]]

InitGroup ==
    /\ pc = "ready"
    /\ \E n \in 0..MaxGrouped : \E choices \in [1..n -> GroupedPool] :
          groupInput = [i \in 1..n |-> GroupedCandidate(i, choices[i])]
    /\ groupOutput = <<>>
    /\ IdleLine /\ IdleCsv /\ IdleDetect /\ IdleImport /\ IdleDup /\ IdleParsers /\ IdleReview

GroupTransactionsByDescription ==
    /\ pc = "ready"
    /\ groupOutput' = groupTransactionsByDescription(groupInput)
    /\ pc' = "grouped"
    /\ UNCHANGED <<reviewVars, lineVars, csvVars, detectVars, importVars, dupVars, parserVars, groupInput>>

NextGroup == GroupTransactionsByDescription

SpecGroup == InitGroup /\ [][NextGroup]_vars

(***************************************************************************)
(* Specification of calculateStringSimilarity and levenshteinDistance: two *)
(* texts of up to MaxCompared characters are compared in both orders.      *)
(***************************************************************************)
ComparedAlphabet == {"a", "b", "c"}

InitSimilarity ==
    /\ pc = "ready"
    /\ similarityInput \in StringsUpTo(ComparedAlphabet, MaxCompared)
                           \X StringsUpTo(ComparedAlphabet, MaxCompared)
    /\ similarityOutput = <<>>
    /\ IdleLine /\ IdleCsv /\ IdleDetect /\ IdleImport /\ IdleDup /\ IdleParsers /\ IdleGroup
    /\ IdleStorage /\ IdleWizard

CalculateStringSimilarity ==
    /\ pc = "ready"
    /\ similarityOutput' =
           [distance |-> levenshteinDistance(similarityInput[1], similarityInput[2]),
            similarity |-> calculateStringSimilarity(similarityInput[1], similarityInput[2]),
            reverse |-> calculateStringSimilarity(similarityInput[2], similarityInput[1])]
    /\ pc' = "compared"
    /\ UNCHANGED <<lineVars, csvVars, detectVars, importVars, dupVars, parserVars, groupVars,
                   similarityInput, storageVars, wizardVars>>

NextSimilarity == CalculateStringSimilarity

SpecSimilarity == InitSimilarity /\ [][NextSimilarity]_vars

(***************************************************************************)
(* Specification of the storage: a stored list is updated and deleted from *)
(* by up to MaxCalls calls of updateTransaction and deleteTransaction.     *)
(***************************************************************************)
NONEXISTENT == <<"stored", 0>>

StoragePool ==
    {Record(1, D_Jan15, T_GroceryStore, parseAmount(A_45_67)),
     Record(1, D_Jan16, T_GasStation, parseAmount(A_32_10)),
     Record(2, D_Jan30, T_GroceryStore, parseAmount(A_45_67))}

\* The identifiers a call may name.
StorageIds == {r.id : r \in StoragePool} \cup {NONEXISTENT}

\* The updates a call may hand in.
StorageUpdates ==
    {<<>>,
     [description |-> T_abc],
     [amount |-> parseAmount(A_45_70), type |-> "income"],
     [id |-> Record(2, D_Jan30, T_GroceryStore, parseAmount(A_45_67)).id]}

NoCall == [op |-> "none", id |-> NONEXISTENT, updates |-> <<>>, count |-> 0]

InitStorage ==
    /\ pc = "ready"
    /\ stored \in UNION {[1..k -> StoragePool] : k \in 0..MaxStored}
    /\ storageCall = NoCall
    /\ storageReturned = FALSE
    /\ parsedTransactions = <<>>
    /\ rowIndex = 0 /\ loads = 0 /\ uuidCount = 0
    /\ consoleErrors = <<>>
    /\ IdleLine /\ IdleCsv /\ IdleDetect /\ IdleDup /\ IdleParsers /\ IdleGroup
    /\ IdleSimilarity /\ IdleWizard

UpdateTransaction ==
    /\ pc = "ready"
    /\ storageCall.count < MaxCalls
    /\ \E id \in StorageIds, updates \in StorageUpdates, setItemThrows \in BOOLEAN :
          /\ storageCall' = [op |-> "updateTransaction", id |-> id, updates |-> updates,
                             count |-> storageCall.count + 1]
          /\ storageReturned' = updateTransaction(stored, id, updates, setItemThrows).returned
          /\ stored' = updateTransaction(stored, id, updates, setItemThrows).storage
    /\ UNCHANGED <<pc, lineVars, csvVars, detectVars, parsedTransactions, rowIndex, loads,
                   uuidCount, consoleErrors, dupVars, parserVars, groupVars,
                   similarityVars, wizardVars>>

DeleteTransaction ==
    /\ pc = "ready"
    /\ storageCall.count < MaxCalls
    /\ \E id \in StorageIds, setItemThrows \in BOOLEAN :
          /\ storageCall' = [op |-> "deleteTransaction", id |-> id, updates |-> <<>>,
                             count |-> storageCall.count + 1]
          /\ storageReturned' = deleteTransaction(stored, id, setItemThrows).returned
          /\ stored' = deleteTransaction(stored, id, setItemThrows).storage
    /\ UNCHANGED <<pc, lineVars, csvVars, detectVars, parsedTransactions, rowIndex, loads,
                   uuidCount, consoleErrors, dupVars, parserVars, groupVars,
                   similarityVars, wizardVars>>

NextStorage == UpdateTransaction \/ DeleteTransaction

SpecStorage == InitStorage /\ [][NextStorage]_vars

(***************************************************************************)
(* Specification of the round trip: the stored transactions are exported   *)
(* and the exported text is decoded, mapped and processed again.           *)
(***************************************************************************)
T_QuotedDiner == <<"J", "o", "e", " ", QUOTE, "D", QUOTE>>

ExportedPool ==
    {Record(1, D_Jan15, T_GroceryStore, parseAmount(A_45_67)),
     Record(2, D_Jan16, T_Salary, parseAmount(A_32_10)),
     [Record(3, D_Jan18, T_GasStation, parseAmount(A_45_70)) EXCEPT !.type = "income"],
     [Record(4, D_Jan19, T_Salary, parseAmount(A_0)) EXCEPT !.type = "income"],
     Record(5, D_Jan20, T_QuotedDiner, parseAmount(A_45_67))}

InitRoundTrip ==
    /\ pc = "stored"
    /\ stored \in UNION {[1..k -> ExportedPool] : k \in 1..MaxStored}
    /\ csvText = <<>> /\ csvRows = <<>>
    /\ rows = <<>> /\ columnMapping = EmptyMapping
    /\ parsedTransactions = <<>>
    /\ rowIndex = 0 /\ loads = 0 /\ uuidCount = 0
    /\ consoleErrors = <<>>
    /\ IdleLine /\ IdleDup /\ IdleParsers /\ IdleGroup /\ IdleReview

\* handleExportData: the stored transactions are written as text.
ExportData ==
    /\ pc = "stored"
    /\ Len(loadTransactions(stored)) # 0
    /\ csvText' = handleExportData(loadTransactions(stored))
    /\ pc' = "exported"
    /\ UNCHANGED <<lineVars, csvRows, detectVars, importVars, dupVars, parserVars, groupVars,
                   reviewVars>>

\* parseCSV of the exported text.
ParseExported ==
    /\ pc = "exported"
    /\ csvRows' = parseCSV(csvText)
    /\ pc' = "decoded"
    /\ UNCHANGED <<lineVars, csvText, detectVars, importVars, dupVars, parserVars, groupVars,
                   reviewVars>>

\* detectColumnMappings of the decoded rows; the importer is ready to run.
MapExported ==
    /\ pc = "decoded"
    /\ rows' = csvRows
    /\ columnMapping' = detectColumnMappings(csvRows)
    /\ pc' = "ready"
    /\ UNCHANGED <<lineVars, csvVars, importVars, dupVars, parserVars, groupVars, reviewVars>>

NextRoundTrip ==
    ExportData \/ ParseExported \/ MapExported \/ BeginImport \/ ProcessRow \/ FinishImport

SpecRoundTrip == InitRoundTrip /\ [][NextRoundTrip]_vars

(***************************************************************************)
(* The import wizard (ImportWizard.tsx): its handlers as operators.        *)
(***************************************************************************)
\* processImportedTransactions(rows, columnMapping): the loop over all rows,
\* when issued identifiers have been given out before.
RECURSIVE ProcessRows(_, _, _, _, _)
ProcessRows(rs, mapping, existing, issued, acc) ==
    IF rs = <<>> THEN acc
    ELSE ProcessRows(Tail(rs), mapping, existing,
             issued + Len(ProcessOneRow(Head(rs), mapping, existing, randomUUID(issued + 1))),
             acc \o ProcessOneRow(Head(rs), mapping, existing, randomUUID(issued + 1)))

processImportedTransactions(rs, mapping, storage, issued) ==
    ProcessRows(rs, mapping, loadTransactions(storage), issued, <<>>)

\* canGoNext() in the step 'mapping': the required columns are mapped.
MappingIsComplete(mapping) ==
    /\ Truthy(mapping.dateColumn)
    /\ Truthy(mapping.descriptionColumn)
    /\ \/ Truthy(mapping.amountColumn)
       \/ Truthy(mapping.debitColumn) /\ Truthy(mapping.creditColumn)

\* processed.some(t => t.isDuplicate)
HasDuplicates(transactions) ==
    \E i \in 1..Len(transactions) : transactions[i].isDuplicate

\* group.transactions.every(t => t.isDuplicate)
AllAreDuplicates(group) ==
    \A k \in 1..Len(group.transactions) : group.transactions[k].isDuplicate

\* groups.forEach(group => { if (allAreDuplicates) group.includeInImport = false })
ExcludeDuplicateGroups(groups) ==
    [g \in 1..Len(groups) |->
        IF AllAreDuplicates(groups[g]) THEN [groups[g] EXCEPT !.includeInImport = FALSE]
        ELSE groups[g]]

\* new Set(groups.flatMap(group => group.transactions.map(t => t.id)))
GroupedTransactionIds(groups) ==
    UNION {{groups[g].transactions[k].id : k \in 1..Len(groups[g].transactions)} :
               g \in 1..Len(groups)}

\* A variant that leaves the grouped candidates in the list.
UngroupedKeepingAll(transactions, groups) == transactions

\* transactions.filter(t => !groupedTransactionIds.has(t.id))
Ungrouped(transactions, groups) ==
    SelectSeq(transactions, LAMBDA t : t.id \notin GroupedTransactionIds(groups))

\* A variant that always shows the duplicates step.
StepAfterMappingAlwaysDuplicates(processed) == "duplicates"

\* hasDuplicates ? 'duplicates' : 'bulk-edit'
StepAfterMapping(processed) == IF HasDuplicates(processed) THEN "duplicates" ELSE "bulk-edit"

\* A variant that retains every candidate.
nonDuplicatesKeepingAll(transactions, selected) == transactions

\* parsedTransactions.filter(t => !t.isDuplicate || selectedTransactions.has(t.id))
nonDuplicates(transactions, selected) ==
    SelectSeq(transactions, LAMBDA t : ~t.isDuplicate \/ t.id \in selected)

\* The identifiers of the candidates of a list.
IdsOf(transactions) == {transactions[i].id : i \in 1..Len(transactions)}

\* The category and type among the updates of a group.
FieldUpdates(updates) == [f \in DOMAIN updates \cap {"category", "type"} |-> updates[f]]

\* The candidates with the given identifiers take the updates; a grouped
\* candidate is one object in the group and in parsedTransactions.
UpdateById(transactions, ids, updates) ==
    [i \in 1..Len(transactions) |->
        IF transactions[i].id \in ids THEN Spread(transactions[i], updates)
        ELSE transactions[i]]

\* updateTransactionGroup: the group after the updates.
GroupAfterUpdate(group, updates) ==
    [description |-> group.description,
     transactions |-> UpdateById(group.transactions, IdsOf(group.transactions),
                                 FieldUpdates(updates)),
     suggestedType |-> IF "type" \in DOMAIN updates THEN updates.type
                       ELSE group.suggestedType,
     suggestedCategory |-> IF "category" \in DOMAIN updates THEN updates.category
                           ELSE group.suggestedCategory,
     includeInImport |-> IF "includeInImport" \in DOMAIN updates
                         THEN updates.includeInImport ELSE group.includeInImport]

\* updateTransactionGroup: the checked identifiers after the updates.
SelectedAfterGroupUpdate(selected, group, updates) ==
    IF "includeInImport" \notin DOMAIN updates THEN selected
    ELSE IF updates.includeInImport
         THEN selected \cup {group.transactions[k].id :
                                k \in {m \in 1..Len(group.transactions) :
                                          ~group.transactions[m].isDuplicate}}
         ELSE selected \ IdsOf(group.transactions)

\* groups.flatMap(group => group.transactions)
RECURSIVE FlatMapTransactions(_)
FlatMapTransactions(groups) ==
    IF groups = <<>> THEN <<>>
    ELSE Head(groups).transactions \o FlatMapTransactions(Tail(groups))

\* allTransactionsToImport: the members of the included groups, then the
\* checked candidates that are in no group.
allTransactionsToImport(groups, ungrouped, selected) ==
    FlatMapTransactions(SelectSeq(groups, LAMBDA group : group.includeInImport # FALSE))
    \o SelectSeq(ungrouped, LAMBDA t : t.id \in selected)

\* for (const transaction of allTransactionsToImport) await addTransaction({...})
RECURSIVE AddAll(_, _, _, _)
AddAll(storage, transactions, issued, createdAt) ==
    IF transactions = <<>> THEN storage
    ELSE AddAll(addTransaction(storage, ImportedFields(Head(transactions)),
                               randomUUID(issued + 1), createdAt),
                Tail(transactions), issued + 1, createdAt)

(***************************************************************************)
(* Specification of the import wizard: a file is uploaded, the mapping is  *)
(* confirmed, duplicates are reviewed, groups and single candidates are    *)
(* edited, and the final import stores what is included.  pc names the     *)
(* handler that ran last.                                                  *)
(***************************************************************************)
\* The rows of the files that are uploaded: descriptions that repeat (so that
\* groups form) on the date and amount of the stored record (so that
\* duplicates arise).
WizardRow(description) == AmountRow(D_Jan15, description, A_45_67)
WizardFiles ==
    {<<WizardRow(T_Salary), WizardRow(T_Salary), WizardRow(V_Store)>>,
     <<WizardRow(T_Salary), WizardRow(V_Store), WizardRow(V_Store)>>}
WizardMappings == {AmountMapping, NoAmountMapping}
WizardStorages == {<<>>, <<Record(1, D_Jan15, T_Salary, parseAmount(A_45_67))>>}

\* The edits the selects of the step 'bulk-edit' offer.
GroupUpdates ==
    {[includeInImport |-> TRUE], [includeInImport |-> FALSE], [category |-> V_Food]}
UngroupedUpdates == {[type |-> "income"]}

InitWizard ==
    /\ pc = "opened"
    /\ stored \in WizardStorages
    /\ rows = <<>> /\ columnMapping = EmptyMapping
    /\ parsedTransactions = <<>>
    /\ rowIndex = 0 /\ loads = 0 /\ uuidCount = 0
    /\ consoleErrors = <<>>
    /\ IdleLine /\ IdleCsv /\ IdleDup /\ IdleParsers /\ IdleGroup
    /\ IdleReview

\* handleFileUpload: the rows parseCSV gives for the file are kept, with the
\* mapping that is shown once detection and the reviewer's selects are done.
HandleFileUpload ==
    /\ currentStep = "upload"
    /\ \E file \in WizardFiles, mapping \in WizardMappings :
           /\ rows' = file
           /\ columnMapping' = mapping
    /\ currentStep' = "mapping"
    /\ pc' = "handleFileUpload"
    /\ UNCHANGED <<lineVars, csvVars, importVars, dupVars, parserVars, groupVars,
                   similarityVars, storageVars, transactionGroups, ungroupedTransactions,
                   selectedTransactions, reviewChecked, imported>>

\* handleMappingConfirm: the rows are processed, grouped, and the step that
\* follows is chosen.
HandleMappingConfirm ==
    /\ currentStep = "mapping"
    /\ MappingIsComplete(columnMapping)
    /\ uuidCount + Len(rows) <= MaxIssued
    /\ parsedTransactions' =
           processImportedTransactions(rows, columnMapping, stored, uuidCount)
    /\ uuidCount' = uuidCount + Len(parsedTransactions')
    /\ transactionGroups' =
           ExcludeDuplicateGroups(groupTransactionsByDescription(parsedTransactions'))
    /\ ungroupedTransactions' = Ungrouped(parsedTransactions', transactionGroups')
    /\ selectedTransactions' =
           IdsOf(SelectSeq(parsedTransactions', LAMBDA t : ~t.isDuplicate))
    /\ currentStep' = StepAfterMapping(parsedTransactions')
    /\ reviewChecked' = {}
    /\ pc' = "handleMappingConfirm"
    /\ UNCHANGED <<lineVars, csvVars, detectVars, stored, rowIndex, loads, consoleErrors,
                   dupVars, parserVars, groupVars, similarityVars, storageVars, imported>>

\* The checkbox of one duplicate in the step 'duplicates'.
ToggleDuplicate ==
    /\ currentStep = "duplicates"
    /\ \E id \in IdsOf(SelectSeq(parsedTransactions, LAMBDA t : t.isDuplicate)) :
           selectedTransactions' =
               IF id \in selectedTransactions THEN selectedTransactions \ {id}
               ELSE selectedTransactions \cup {id}
    /\ pc' = "toggleDuplicate"
    /\ UNCHANGED <<lineVars, csvVars, detectVars, importVars, dupVars, parserVars, groupVars,
                   similarityVars, storageVars, currentStep, transactionGroups,
                   ungroupedTransactions, reviewChecked, imported>>

\* The checkbox "import duplicates anyway": all duplicates are checked or unchecked.
ToggleAllDuplicates ==
    /\ currentStep = "duplicates"
    /\ \E checked \in BOOLEAN :
           selectedTransactions' =
               IF checked
               THEN selectedTransactions
                    \cup IdsOf(SelectSeq(parsedTransactions, LAMBDA t : t.isDuplicate))
               ELSE selectedTransactions
                    \ IdsOf(SelectSeq(parsedTransactions, LAMBDA t : t.isDuplicate))
    /\ pc' = "toggleAllDuplicates"
    /\ UNCHANGED <<lineVars, csvVars, detectVars, importVars, dupVars, parserVars, groupVars,
                   similarityVars, storageVars, currentStep, transactionGroups,
                   ungroupedTransactions, reviewChecked, imported>>

\* handleDuplicateReview: the unchecked duplicates are dropped and the rest
\* is grouped afresh.
HandleDuplicateReview ==
    /\ currentStep = "duplicates"
    /\ transactionGroups' =
           groupTransactionsByDescription(
               nonDuplicates(parsedTransactions, selectedTransactions))
    /\ ungroupedTransactions' =
           Ungrouped(nonDuplicates(parsedTransactions, selectedTransactions),
                     transactionGroups')
    /\ selectedTransactions' = IdsOf(ungroupedTransactions')
    /\ reviewChecked' =
           selectedTransactions
           \cap IdsOf(SelectSeq(parsedTransactions, LAMBDA t : t.isDuplicate))
    /\ currentStep' = "bulk-edit"
    /\ pc' = "handleDuplicateReview"
    /\ UNCHANGED <<lineVars, csvVars, detectVars, importVars, dupVars, parserVars, groupVars,
                   similarityVars, storageVars, imported>>

\* updateTransactionGroup(groupIndex, updates) from the controls of a group.
UpdateTransactionGroup ==
    /\ currentStep = "bulk-edit"
    /\ \E groupIndex \in 1..Len(transactionGroups), updates \in GroupUpdates :
           /\ transactionGroups' =
                  [transactionGroups EXCEPT
                      ![groupIndex] = GroupAfterUpdate(transactionGroups[groupIndex], updates)]
           /\ parsedTransactions' =
                  UpdateById(parsedTransactions,
                             IdsOf(transactionGroups[groupIndex].transactions),
                             FieldUpdates(updates))
           /\ selectedTransactions' =
                  SelectedAfterGroupUpdate(selectedTransactions,
                                           transactionGroups[groupIndex], updates)
    /\ pc' = "updateTransactionGroup"
    /\ UNCHANGED <<lineVars, csvVars, detectVars, stored, rowIndex, loads, uuidCount,
                   consoleErrors, dupVars, parserVars, groupVars, similarityVars,
                   storageVars, currentStep, ungroupedTransactions, reviewChecked, imported>>

\* The checkbox of a candidate that is in no group.
ToggleUngrouped ==
    /\ currentStep = "bulk-edit"
    /\ \E id \in IdsOf(ungroupedTransactions) :
           selectedTransactions' =
               IF id \in selectedTransactions THEN selectedTransactions \ {id}
               ELSE selectedTransactions \cup {id}
    /\ pc' = "toggleUngrouped"
    /\ UNCHANGED <<lineVars, csvVars, detectVars, importVars, dupVars, parserVars, groupVars,
                   similarityVars, storageVars, currentStep, transactionGroups,
                   ungroupedTransactions, reviewChecked, imported>>

\* updateUngroupedTransaction(transactionId, updates).
UpdateUngroupedTransaction ==
    /\ currentStep = "bulk-edit"
    /\ \E id \in IdsOf(ungroupedTransactions), updates \in UngroupedUpdates :
           /\ ungroupedTransactions' = UpdateById(ungroupedTransactions, {id}, updates)
           /\ parsedTransactions' = UpdateById(parsedTransactions, {id}, updates)
    /\ pc' = "updateUngroupedTransaction"
    /\ UNCHANGED <<lineVars, csvVars, detectVars, stored, rowIndex, loads, uuidCount,
                   consoleErrors, dupVars, parserVars, groupVars, similarityVars,
                   storageVars, currentStep, transactionGroups, selectedTransactions,
                   reviewChecked, imported>>

\* handleNext in the step 'bulk-edit'.
HandleNext ==
    /\ currentStep = "bulk-edit"
    /\ currentStep' = "confirm"
    /\ pc' = "handleNext"
    /\ UNCHANGED <<lineVars, csvVars, detectVars, importVars, dupVars, parserVars, groupVars,
                   similarityVars, storageVars, transactionGroups, ungroupedTransactions,
                   selectedTransactions, reviewChecked, imported>>

\* handleFinalImport: every member of an included group and every checked
\* single candidate is handed to addTransaction.
HandleFinalImport ==
    /\ currentStep = "confirm"
    /\ uuidCount + Len(allTransactionsToImport(transactionGroups, ungroupedTransactions,
                                               selectedTransactions)) <= MaxIssued
    /\ \E createdAt \in ClockReadings :
           stored' = AddAll(stored,
                            allTransactionsToImport(transactionGroups, ungroupedTransactions,
                                                    selectedTransactions),
                            uuidCount, createdAt)
    /\ imported' = imported \o allTransactionsToImport(transactionGroups,
                                   ungroupedTransactions, selectedTransactions)
    /\ uuidCount' = uuidCount + Len(stored') - Len(stored)
    /\ currentStep' = "complete"
    /\ pc' = "handleFinalImport"
    /\ UNCHANGED <<lineVars, csvVars, detectVars, parsedTransactions, rowIndex, loads,
                   consoleErrors, dupVars, parserVars, groupVars, similarityVars,
                   storageVars, transactionGroups, ungroupedTransactions,
                   selectedTransactions, reviewChecked>>

\* handleBack: the step that is shown next.
PreviousStep(step, transactions) ==
    IF step = "mapping" THEN "upload"
    ELSE IF step = "duplicates" THEN "mapping"
    ELSE IF step = "bulk-edit"
         THEN (IF HasDuplicates(transactions) THEN "duplicates" ELSE "mapping")
    ELSE "bulk-edit"

HandleBack ==
    /\ currentStep \in {"mapping", "duplicates", "bulk-edit", "confirm"}
    /\ currentStep' = PreviousStep(currentStep, parsedTransactions)
    /\ pc' = "handleBack"
    /\ UNCHANGED <<lineVars, csvVars, detectVars, importVars, dupVars, parserVars, groupVars,
                   similarityVars, storageVars, transactionGroups, ungroupedTransactions,
                   selectedTransactions, reviewChecked, imported>>

NextWizard ==
    \/ HandleFileUpload \/ HandleMappingConfirm
    \/ ToggleDuplicate \/ ToggleAllDuplicates \/ HandleDuplicateReview
    \/ UpdateTransactionGroup \/ ToggleUngrouped \/ UpdateUngroupedTransaction
    \/ HandleNext \/ HandleFinalImport \/ HandleBack

SpecWizard == InitWizard /\ [][NextWizard]_vars

(***************************************************************************)
(* Properties of the tabular decoder.                                      *)
(***************************************************************************)
DelimiterSet == {Delimiters[k] : k \in 1..Len(Delimiters)}

Priority(d) == CHOOSE k \in 1..Len(Delimiters) : Delimiters[k] = d

IsBlank(l) == \A i \in 1..Len(l) : l[i] \in WhiteSpace

\* The non-blank lines of a text, in order.
LinesOf(text) == SelectSeq(Split(text, NEWLINE), LAMBDA l : ~IsBlank(l))

\* The data lines whose field count equals the header's.
MatchingLines(text) ==
    LET lines == LinesOf(text)
        d == detectDelimiter(lines[1])
        n == Len(parseCSVLine(lines[1], d))
    IN  SelectSeq(SubSeq(lines, 2, Len(lines)),
                  LAMBDA l : Len(parseCSVLine(l, d)) = n)

\* Row r holds exactly the header names, each with the trimmed value of the
\* last column of that name in data line l.
RowIsLine(r, text, l) ==
    LET lines == LinesOf(text)
        d == detectDelimiter(lines[1])
        headers == parseCSVLine(lines[1], d)
        values == parseCSVLine(l, d)
    IN  /\ {Keys(r)[i] : i \in 1..Len(r)} = {Trim(headers[k]) : k \in 1..Len(headers)}
        /\ Len(r) = Cardinality({Trim(headers[k]) : k \in 1..Len(headers)})
        /\ \A k \in 1..Len(headers) :
              (\A k2 \in (k + 1)..Len(headers) : Trim(headers[k2]) # Trim(headers[k]))
                  => Get(r, Trim(headers[k])) = Trim(values[k])

\* C7: parseCSV returns, in input order, exactly one row for each non-blank
\* data line whose field count equals the header's field count, nothing for
\* any other line, and the empty list when the text has fewer than two
\* non-blank lines.
C7_ParseCsvRows ==
    pc = "parsed" =>
        IF Len(LinesOf(csvText)) < 2
        THEN csvRows = <<>>
        ELSE LET kept == MatchingLines(csvText)
             IN  /\ Len(csvRows) = Len(kept)
                 /\ \A i \in 1..Len(kept) : RowIsLine(csvRows[i], csvText, kept[i])

\* A text with a kept data line and a dropped one.
C7_Witness ==
    /\ pc = "parsed"
    /\ Len(csvRows) >= 1
    /\ Len(LinesOf(csvText)) - 1 > Len(csvRows)

\* The empty text gives no rows.
C7_WitnessEmpty == pc = "parsed" /\ csvText = <<>> /\ csvRows = <<>>

\* C8: detectDelimiter chooses, among ; , tab and |, the one that occurs most
\* often in the line; on equal counts the earlier one in that order wins, and
\* the comma is chosen when none occurs.
C8_DelimiterChoice ==
    pc = "detected" =>
        /\ delimiter \in DelimiterSet
        /\ (\A d \in DelimiterSet : Count(line, d) = 0) => delimiter = ","
        /\ (\E d \in DelimiterSet : Count(line, d) > 0) =>
              /\ \A d \in DelimiterSet : Count(line, d) <= Count(line, delimiter)
              /\ \A d \in DelimiterSet :
                    Count(line, d) = Count(line, delimiter)
                        => Priority(delimiter) <= Priority(d)
        /\ (\A d \in DelimiterSet \ {";"} : Count(line, ";") > Count(line, d))
              => delimiter = ";"

\* A tie between semicolon and comma, resolved for the semicolon.
C8_Witness ==
    /\ pc = "detected"
    /\ Count(line, ";") = Count(line, ",")
    /\ Count(line, ",") > 0
    /\ delimiter = ";"

\* A quote toggles the quote state unless a backslash precedes it.
IsToggle(l, i) == l[i] = QUOTE /\ (i = 1 \/ l[i - 1] # BACKSLASH)

InsideQuotes(l, i) == Cardinality({j \in 1..(i - 1) : IsToggle(l, j)}) % 2 = 1

OutsideDelimiters(l, d) == {i \in 1..Len(l) : l[i] = d /\ ~InsideQuotes(l, i)}

RECURSIVE JoinWith(_, _)
JoinWith(fs, d) ==
    IF Len(fs) = 0 THEN <<>>
    ELSE IF Len(fs) = 1 THEN fs[1]
    ELSE fs[1] \o <<d>> \o JoinWith(Tail(fs), d)

StoreInc == <<"\"", "S", "t", "o", "r", "e", ",", " ", "I", "n", "c", "\"">>

\* C9: a delimiter inside an open double-quote span does not start a field:
\* the number of fields is one plus the number of delimiters outside quote
\* spans, and the enclosing quotes are not part of a field's value.
C9_QuotedDelimiters ==
    /\ pc = "split" =>
          /\ Len(fields) = 1 + Cardinality(OutsideDelimiters(line, delimiter))
          /\ Count(line, BACKSLASH) = 0 =>
                /\ \A k \in 1..Len(fields) : Count(fields[k], QUOTE) = 0
                /\ JoinWith(fields, delimiter)
                       = SelectSeq(line, LAMBDA c : c # QUOTE)
    /\ parseCSVLine(StoreInc, ",") = <<SubSeq(StoreInc, 2, Len(StoreInc) - 1)>>

\* A line with a delimiter inside quotes and one outside.
C9_Witness ==
    /\ pc = "split"
    /\ \E i \in 1..Len(line) : line[i] = delimiter /\ InsideQuotes(line, i)
    /\ Len(fields) = 2

(***************************************************************************)
(* Properties of the schema inferrer.                                      *)
(***************************************************************************)
HeaderSet(rs) == {Keys(rs[1])[i] : i \in 1..Len(rs[1])}

\* C2: the mapping detectColumnMappings returns for a non-empty list of rows
\* never has a non-empty amountColumn together with both a debitColumn and a
\* creditColumn.
C2_OneAmountStrategy ==
    (pc = "mapped" /\ rows # <<>>) =>
        ~(/\ columnMapping.amountColumn # <<>>
          /\ Truthy(columnMapping.debitColumn)
          /\ Truthy(columnMapping.creditColumn))

CanonicalNames == {H_Date, H_Description, H_Category, H_Type, H_Amount, H_CreatedAt}

\* C10: detectColumnMappings sets isBasilCSV exactly when the header set
\* holds all six canonical names (exact case, any order, extra columns
\* allowed); the mapping is then wired to exactly those names, whatever
\* other columns there are.
C10_BasilDetection ==
    (pc = "mapped" /\ rows # <<>>) =>
        /\ columnMapping.isBasilCSV <=> CanonicalNames \subseteq HeaderSet(rows)
        /\ columnMapping.isBasilCSV =>
              /\ columnMapping.dateColumn = H_Date
              /\ columnMapping.descriptionColumn = H_Description
              /\ columnMapping.amountColumn = H_Amount
              /\ columnMapping.categoryColumn = H_Category
              /\ columnMapping.typeColumn = H_Type
              /\ columnMapping.createdAtColumn = H_CreatedAt
              /\ columnMapping.debitColumn = UNDEFINED
              /\ columnMapping.creditColumn = UNDEFINED

\* The canonical names in another order, with debit and credit columns
\* around them, which the heuristics would have picked up.
C10_Witness ==
    /\ pc = "mapped"
    /\ columnMapping.isBasilCSV
    /\ Keys(rows[1])[1] = H_Debit
    /\ Keys(rows[1])[3] # H_Date
    /\ H_DebitAmount \in HeaderSet(rows)

\* Five of the six names, one of them only in lower case: no flag.
C10_WitnessMissing ==
    /\ pc = "mapped"
    /\ rows # <<>>
    /\ ~columnMapping.isBasilCSV
    /\ Cardinality(CanonicalNames \cap HeaderSet(rows)) = 5
    /\ ToLowerCase(H_Date) \in HeaderSet(rows)

(***************************************************************************)
(* Properties of the duplicate detector.                                   *)
(***************************************************************************)
\* The three conditions between a candidate and one existing record: both
\* dates are dates and at most 3 days apart, the amounts differ by less
\* than 0.01, and the similarity of the lower-cased descriptions is above 0.8.
C4_Matching(c, e) ==
    /\ DateTime(c.date) # NaN /\ DateTime(e.date) # NaN
    /\ DateTime(c.date)[1] - DateTime(e.date)[1] \in -3..3
    /\ 100 * (e.amount - c.amount) < Scale
    /\ 100 * (c.amount - e.amount) < Scale
    /\ LET similarity == calculateStringSimilarity(ToLowerCase(c.description),
                                                   ToLowerCase(e.description))
       IN  10 * similarity[1] > 8 * similarity[2]

GroceryRecord == Record(1, D_Jan15, T_GroceryStore, parseAmount(A_45_67))

\* C4: checkForDuplicates returns true exactly when some existing record is
\* within 3 days, within 0.01 of the amount and more than 0.8 similar in
\* description, all three together.  Against the record (2024-01-15,
\* Grocery Store, 45.67) the same candidate is a duplicate, the candidate
\* dated 2024-01-20 is not, and the candidate of amount 45.70 is not.
C4_DuplicateRule ==
    pc = "checked" =>
        /\ isDuplicate <=>
              \E i \in 1..Len(existingTransactions) :
                  C4_Matching(newTransaction, existingTransactions[i])
        /\ (/\ existingTransactions = <<GroceryRecord>>
            /\ newTransaction.description = T_GroceryStore) =>
              /\ (newTransaction.date = D_Jan15
                  /\ newTransaction.amount = parseAmount(A_45_67)) => isDuplicate
              /\ newTransaction.date = D_Jan20 => ~isDuplicate
              /\ newTransaction.amount = parseAmount(A_45_70) => ~isDuplicate

\* A duplicate found at the second record, at exactly 3 days, with a smaller
\* amount difference and a description one letter short.
C4_Witness ==
    /\ pc = "checked"
    /\ isDuplicate
    /\ Len(existingTransactions) = 2
    /\ ~C4_Matching(newTransaction, existingTransactions[1])
    /\ existingTransactions[2] = GroceryRecord
    /\ newTransaction.date = D_Jan18
    /\ newTransaction.amount = parseAmount(A_45_675)
    /\ newTransaction.description = T_GroceryStor

\* The date texts of the pools from which no Date can be built.
C5_Unparseable(date) == date \in {<<>>, D_Month13}

C5_ParseableRecord(e) == ~C5_Unparseable(e.date)

\* C5: checkForDuplicates gives a boolean for every candidate and list; a
\* candidate whose date cannot be parsed is never a duplicate, and a record
\* whose date cannot be parsed never makes one: the result is the result
\* over the records with a parseable date.
C5_UnparseableDates ==
    pc = "checked" =>
        /\ isDuplicate \in BOOLEAN
        /\ C5_Unparseable(newTransaction.date) => ~isDuplicate
        /\ isDuplicate <=>
              \E i \in 1..Len(existingTransactions) :
                  /\ C5_ParseableRecord(existingTransactions[i])
                  /\ ~C5_Unparseable(newTransaction.date)
                  /\ C4_Matching(newTransaction, existingTransactions[i])

\* The only record has the candidate's amount and description and an empty
\* date: not a duplicate.
C5_Witness ==
    /\ pc = "checked"
    /\ Len(existingTransactions) = 1
    /\ existingTransactions[1].date = <<>>
    /\ existingTransactions[1].description = newTransaction.description
    /\ existingTransactions[1].amount = newTransaction.amount
    /\ newTransaction.date = D_Jan15
    /\ ~isDuplicate

(***************************************************************************)
(* Properties of the importer.                                             *)
(***************************************************************************)
\* The text of the amount column in the row a candidate came from.
SourceAmount(t) == Get(t.originalRow, H_Amount)

HasIncomeKeyword(description) ==
    \E k \in 1..Len(incomeKeywords) : Includes(ToLowerCase(description), incomeKeywords[k])

\* C1: under the single amount mapping without a type column, a candidate
\* whose amount text is a plain positive number and whose description has no
\* income keyword has the type "expense"; the rows (2024-01-15, Grocery
\* Store, 45.67) and (2024-01-16, Gas Station, 32.10) with nothing stored
\* give two candidates of type "expense", amounts 45.67 and 32.10, neither
\* flagged as a duplicate.
C1_DefaultExpense ==
    (pc = "returned" /\ columnMapping = AmountMapping) =>
        /\ \A i \in 1..Len(parsedTransactions) :
              (/\ DigitsDotDigits(SourceAmount(parsedTransactions[i]))
               /\ parseAmount(SourceAmount(parsedTransactions[i])) > 0
               /\ ~HasIncomeKeyword(parsedTransactions[i].description))
              => parsedTransactions[i].type = "expense"
        /\ (/\ rows = <<AmountRow(D_Jan15, T_GroceryStore, A_45_67),
                        AmountRow(D_Jan16, T_GasStation, A_32_10)>>
            /\ existingTransactions = <<>>) =>
              /\ Len(parsedTransactions) = 2
              /\ parsedTransactions[1].type = "expense"
              /\ parsedTransactions[2].type = "expense"
              /\ parsedTransactions[1].amount = parseAmount(A_45_67)
              /\ parsedTransactions[2].amount = parseAmount(A_32_10)
              /\ ~parsedTransactions[1].isDuplicate
              /\ ~parsedTransactions[2].isDuplicate

\* The text the amount of a candidate was parsed from: the debit or credit
\* column under a debit/credit mapping, else the amount column.
SourceTexts(t) ==
    IF columnMapping = DebitCreditMapping
    THEN {Trim(Get(t.originalRow, H_Debit)), Trim(Get(t.originalRow, H_Credit))}
    ELSE {SourceAmount(t)}

\* C3: every candidate has an amount of at least 0, and it is the size of
\* the number its text was parsed to, whatever the sign of that text.
C3_NonNegativeAmount ==
    pc \in {"processing", "returned"} =>
        \A i \in 1..Len(parsedTransactions) :
            /\ parsedTransactions[i].amount >= 0
            /\ \E text \in SourceTexts(parsedTransactions[i]) :
                  parsedTransactions[i].amount
                      \in {parseAmount(text), -parseAmount(text)}

\* A candidate from an amount in parentheses.
C3_Witness ==
    /\ pc = "returned"
    /\ Len(parsedTransactions) = 1
    /\ SourceAmount(parsedTransactions[1]) = A_Paren45_67
    /\ parseAmount(A_Paren45_67) < 0
    /\ parsedTransactions[1].amount = parseAmount(A_45_67)

C6_Snapshot ==
    /\ pc = "processing" => existingTransactions = stored
    /\ pc \in {"processing", "returned"} => loads = 1

\* A step of the run leaves storage, the list and the count of loads as they
\* are, and flags the candidate it pushes by that list alone.
C6_Frame ==
    pc = "processing" =>
        /\ stored' = stored
        /\ existingTransactions' = existingTransactions
        /\ loads' = loads
        /\ Len(parsedTransactions') > Len(parsedTransactions) =>
              (parsedTransactions'[Len(parsedTransactions')].isDuplicate <=>
                  \E k \in 1..Len(stored) :
                      C4_Matching(parsedTransactions'[Len(parsedTransactions')], stored[k]))

\* C6: during a run the existing records are loaded once and stay as they
\* were read: storage and the list compared against do not change while the
\* loop runs, and every candidate's duplicate flag is its comparison with
\* that list, which never holds a candidate of the same batch.
C6_SnapshotOnce == [](C6_Snapshot) /\ [][C6_Frame]_vars

\* Two rows of the same batch that would match each other, with a record in
\* storage: neither is flagged.
C6_Witness ==
    /\ pc = "returned"
    /\ stored # <<>>
    /\ Len(parsedTransactions) = 2
    /\ C4_Matching(parsedTransactions[2], parsedTransactions[1])
    /\ ~parsedTransactions[1].isDuplicate
    /\ ~parsedTransactions[2].isDuplicate

(***************************************************************************)
(* Properties of the field normalizer.                                     *)
(***************************************************************************)
TwoDigits(n) == <<DigitChars[(n \div 10) + 1], DigitChars[(n % 10) + 1]>>

\* The number n written with w digits (with at least w digits, for w = 1).
Written(n, w) == IF w = 1 /\ n < 10 THEN <<DigitChars[n + 1]>> ELSE TwoDigits(n)

\* C11: for every text first/second/YYYY with first <= 12 and second <= 31,
\* in one or two digits each, parseDate returns YYYY-MM-DD with the month
\* first and the day second, zero-padded; a text with both groups up to 12 is
\* read as MM/DD.
C11_MonthFirst ==
    pc = "dateParsed" =>
        \A first \in 0..12, second \in 0..31, year \in {Y_2024, Y_1999}, w1, w2 \in {1, 2} :
            dateInput = SlashDate(Written(first, w1), Written(second, w2), year)
                => dateOutput = year \o <<"-">> \o TwoDigits(first)
                                     \o <<"-">> \o TwoDigits(second)

\* 03/04/2024 is the 4th of March.
C11_Witness ==
    /\ pc = "dateParsed"
    /\ dateInput = <<"0", "3", "/", "0", "4", "/", "2", "0", "2", "4">>
    /\ dateOutput = <<"2", "0", "2", "4", "-", "0", "3", "-", "0", "4">>

\* /^\d{4}-\d{2}-\d{2}/: the text begins with a YYYY-MM-DD prefix.
HasIsoPrefix(s) ==
    /\ Len(s) >= 10
    /\ \A i \in {1, 2, 3, 4, 6, 7, 9, 10} : s[i] \in Digits
    /\ s[5] = "-" /\ s[8] = "-"

\* C12: for every input that begins with a YYYY-MM-DD prefix, whatever
\* follows it (a space and a time, a T and a time, or nothing), parseDate
\* returns exactly the ten-character date portion.
C12_DatePortion ==
    (pc = "dateParsed" /\ HasIsoPrefix(dateInput)) => dateOutput = SubSeq(dateInput, 1, 10)

\* C13: parseAmount(String(parseAmount(x))) equals parseAmount(x) for every
\* input text x: plain, negative, in parentheses, with currency signs, with
\* thousands commas, with trailing garbage, or unparseable.
C13_Idempotent ==
    pc = "amountReparsed" => amountRoundTrip = amountOutput

\* ($1,234.56) gives -1234.56, and "-1234.56" gives it again.
C13_Witness ==
    /\ pc = "amountReparsed"
    /\ amountInput = <<"(", "$", "1", ",", "2", "3", "4", ".", "5", "6", ")">>
    /\ amountOutput = -(1234 * Scale + (56 * Scale) \div 100)
    /\ amountRoundTrip = amountOutput

\* The text parseAmount hands to parseFloat: trimmed, without the enclosing
\* parentheses, currency signs, commas and white space.
CleanedAmount(s) ==
    LET trimmed == Trim(s)
    IN  RemoveAll(IF InParentheses(trimmed) THEN SubSeq(trimmed, 2, Len(trimmed) - 1)
                  ELSE trimmed,
                  CurrencySigns \cup {","} \cup WhiteSpace)

\* The trimmed text is wrapped in parentheses or starts with '-'.
MarkedNegative(s) == InParentheses(Trim(s)) \/ StartsWith(Trim(s), "-")

HasNumericPrefix(s) == ~isNaN(parseFloat(CleanedAmount(s)))

\* C14 as stated: with a numeric prefix the value is negative exactly when
\* the trimmed input is in parentheses or starts with '-', and positive
\* otherwise, with the magnitude of the parsed number; without a numeric
\* prefix the value is 0.  (A parsed zero, which has no sign, is let pass on
\* both sides.)
C14_SignRule ==
    pc = "amountParsed" =>
        IF HasNumericPrefix(amountInput)
        THEN /\ MarkedNegative(amountInput) => amountOutput <= 0
             /\ ~MarkedNegative(amountInput) => amountOutput >= 0
             /\ MathAbs(amountOutput) = MathAbs(parseFloat(CleanedAmount(amountInput))[1])
        ELSE amountOutput = 0

\* C14 as amended: with a numeric prefix the value is minus the magnitude of
\* the parsed number (never positive) when the trimmed input is in
\* parentheses or starts with '-', and is the parsed number with its own
\* sign otherwise; without a numeric prefix the value is 0.
C14_SignRuleAmended ==
    pc = "amountParsed" =>
        IF HasNumericPrefix(amountInput)
        THEN /\ MarkedNegative(amountInput) => amountOutput <= 0
             /\ ~MarkedNegative(amountInput)
                    => amountOutput = parseFloat(CleanedAmount(amountInput))[1]
             /\ MathAbs(amountOutput) = MathAbs(parseFloat(CleanedAmount(amountInput))[1])
        ELSE amountOutput = 0

\* $-45.67 is not marked negative, and comes back negative.
C14_Witness ==
    /\ pc = "amountParsed"
    /\ amountInput = <<"$", "-", "4", "5", ".", "6", "7">>
    /\ amountOutput = -parseAmount(A_45_67)
    /\ amountOutput < 0

\* The hint, lower-cased, is in the income vocabulary / the expense vocabulary.
HintSaysIncome(hint) ==
    /\ hint # UNDEFINED
    /\ \/ Trim(ToLowerCase(hint)) = K_income
       \/ \E w \in {K_credit, K_deposit, K_income} : Includes(ToLowerCase(hint), w)

HintSaysExpense(hint) ==
    /\ hint # UNDEFINED
    /\ \/ Trim(ToLowerCase(hint)) = K_expense
       \/ \E w \in {K_debit, K_withdrawal, K_expense} : Includes(ToLowerCase(hint), w)

\* C15: determineTransactionType gives the result of the first applicable
\* rule: (1) a type hint in the income or the expense vocabulary decides
\* alone; (2) otherwise an income keyword in the description gives income,
\* whatever the debit flag; (3) otherwise a defined debit flag gives expense
\* for debit and income for credit; (4) otherwise expense.  A hint in neither
\* vocabulary is ignored.
C15_RuleOrder ==
    pc = "typed" =>
        LET hint == typeInput.typeColumn
            keyword == SomeIncomeKeyword(ToLowerCase(typeInput.description))
            flag == typeInput.isDebit
        IN  /\ HintSaysIncome(hint) => typeOutput = "income"
            /\ (HintSaysExpense(hint) /\ ~HintSaysIncome(hint)) => typeOutput = "expense"
            /\ (~HintSaysIncome(hint) /\ ~HintSaysExpense(hint)) =>
                  /\ keyword => typeOutput = "income"
                  /\ (~keyword /\ flag = <<TRUE>>) => typeOutput = "expense"
                  /\ (~keyword /\ flag = <<FALSE>>) => typeOutput = "income"
                  /\ (~keyword /\ flag = <<>>) => typeOutput = "expense"

\* The hint "expense" decides against the keyword salary and a credit flag.
C15_Witness ==
    /\ pc = "typed"
    /\ typeInput = [description |-> T_Salary, typeColumn |-> K_expense, isDebit |-> <<FALSE>>]
    /\ typeOutput = "expense"

\* The keyword payroll decides against a debit flag when the hint says nothing.
C15_WitnessKeyword ==
    /\ pc = "typed"
    /\ typeInput = [description |-> T_Payroll, typeColumn |-> V_xx, isDebit |-> <<TRUE>>]
    /\ typeOutput = "income"

(***************************************************************************)
(* Properties of the importer's skip rules and error handling.             *)
(***************************************************************************)
SingleAmountMapping == columnMapping \in {AmountMapping, TypedMapping}

\* The field of a row is there and is not the empty text.
FieldGiven(row, column) == Get(row, column) \notin {UNDEFINED, <<>>}

\* Under a single amount column a row is kept when its date, its
\* description and its amount field are given.
C16_Kept(row) ==
    FieldGiven(row, H_Date) /\ FieldGiven(row, H_Description) /\ FieldGiven(row, H_Amount)

OriginalRows(transactions) ==
    [i \in 1..Len(transactions) |-> transactions[i].originalRow]

\* C16: under a single amount column, and when no row raised, a row is
\* dropped only when its amount field is empty or missing (or its date or
\* description is); a row whose amount field holds a text that cannot be
\* parsed is kept, with the amount 0.
C16_UnparseableAmountKept ==
    (pc = "returned" /\ SingleAmountMapping /\ consoleErrors = <<>>) =>
        /\ OriginalRows(parsedTransactions) = SelectSeq(rows, C16_Kept)
        /\ \A i \in 1..Len(parsedTransactions) :
              ~HasNumericPrefix(SourceAmount(parsedTransactions[i]))
                  => parsedTransactions[i].amount = 0

\* The row with the amount "invalid" comes back with the amount 0.
C16_Witness ==
    /\ pc = "returned"
    /\ columnMapping = AmountMapping
    /\ rows = <<AmountRow(D_Jan15, T_GroceryStore, A_invalid)>>
    /\ Len(parsedTransactions) = 1
    /\ parsedTransactions[1].amount = 0
    /\ parsedTransactions[1].description = T_GroceryStore

\* The row without the Amount field is dropped.
C16_WitnessMissing ==
    /\ pc = "returned"
    /\ columnMapping = AmountMapping
    /\ rows = <<DebitCreditRow(D_Jan15, T_GroceryStore, A_45_67, <<>>)>>
    /\ parsedTransactions = <<>>

\* C17: a row whose date field is given but matches no date strategy is
\* returned with the empty text as its date: the date of a candidate is a
\* date the strategies built, or empty, never the raw text.
C17_UnparseableDateEmpty ==
    pc = "returned" =>
        \A i \in 1..Len(parsedTransactions) :
            Get(parsedTransactions[i].originalRow, H_Date) \in UnparseableDates
                => parsedTransactions[i].date = <<>>

\* The row passes the skip rules of the mapping in use.
PassesSkipRules(row) ==
    /\ FieldGiven(row, H_Date) /\ FieldGiven(row, H_Description)
    /\ IF columnMapping = DebitCreditMapping
       THEN \E column \in {H_Debit, H_Credit} :
                /\ FieldGiven(row, column)
                /\ Trim(Get(row, column)) \notin {<<>>, S_0, S_0_00}
       ELSE SingleAmountMapping /\ FieldGiven(row, H_Amount)

\* The rows at the indices of I, in their order.
RECURSIVE RowsAt(_, _, _)
RowsAt(rs, I, i) ==
    IF i > Len(rs) THEN <<>>
    ELSE (IF i \in I THEN <<rs[i]>> ELSE <<>>) \o RowsAt(rs, I, i + 1)

\* C18: a row that raises is skipped alone and does not end the run: the
\* returned list holds, in input order, one candidate for every other row
\* that passes the skip rules, each with its own row as originalRow, and the
\* rows that raised are the rows that were logged.
C18_FaultSkipsOneRow ==
    pc = "returned" =>
        \E raised \in SUBSET {i \in 1..Len(rows) : PassesSkipRules(rows[i])} :
            /\ consoleErrors = RowsAt(rows, raised, 1)
            /\ OriginalRows(parsedTransactions)
                  = RowsAt(rows, {i \in 1..Len(rows) : PassesSkipRules(rows[i])} \ raised, 1)

\* The first of two rows raised; the second came back.
C18_Witness ==
    /\ pc = "returned"
    /\ Len(rows) = 2
    /\ rows[1] # rows[2]
    /\ consoleErrors = <<rows[1]>>
    /\ Len(parsedTransactions) = 1
    /\ parsedTransactions[1].originalRow = rows[2]

(***************************************************************************)
(* Properties of the confidence score (in tenths) and of the grouping.     *)
(***************************************************************************)
\* The date part: 0.4 for a text of a strict date pattern, 0.2 for any other
\* text that is not empty.
C19_DatePart(text) ==
    IF MatchesDatePattern(text) THEN 4 ELSE IF text # <<>> THEN 2 ELSE 0

\* The description part: 0.2 above five characters, 0.1 when not empty.
C19_DescriptionPart(text) == IF Len(text) > 5 THEN 2 ELSE IF text # <<>> THEN 1 ELSE 0

\* The amount part, for the text of the parsed number: 0.4 for a text of a
\* strict amount pattern, 0.2 for any other numeric text.
C19_AmountPart(text) ==
    IF MatchesAmountPattern(text) THEN 4 ELSE IF HasNumericPrefix(text) THEN 2 ELSE 0

\* C19: the confidence of every candidate is the date part plus the amount
\* part plus the description part, capped at 1.0; it lies in [0, 1] and is
\* at least 0.5, the date and the description of a candidate being given
\* and its amount numeric.
C19_ConfidenceRange ==
    pc \in {"processing", "returned"} =>
        \A i \in 1..Len(parsedTransactions) :
            /\ parsedTransactions[i].confidence \in 5..10
            /\ \E text \in SourceTexts(parsedTransactions[i]) :
                  /\ parsedTransactions[i].amount = MathAbs(parseAmount(text))
                  /\ C19_AmountPart(NumberToString(parseAmount(text))) \in {2, 4}
                  /\ parsedTransactions[i].confidence
                        = Min2(10, C19_DatePart(Get(parsedTransactions[i].originalRow, H_Date))
                                   + C19_AmountPart(NumberToString(parseAmount(text)))
                                   + C19_DescriptionPart(parsedTransactions[i].description))

\* The date "abc" with a description of six characters: 0.2 + 0.4 + 0.2.
C19_Witness ==
    /\ pc = "returned"
    /\ rows = <<AmountRow(T_abc, T_Salary, A_45_67)>>
    /\ Len(parsedTransactions) = 1
    /\ parsedTransactions[1].confidence = 8

\* The members of a returned group, as a set.
Members(group) == {group.transactions[k] : k \in 1..Len(group.transactions)}

\* C20: two transactions of the list are members of one returned group if
\* and only if their normalized descriptions are equal and their duplicate
\* flags are equal; a flagged and an unflagged transaction are never in one
\* group.
C20_SameGroup ==
    pc = "grouped" =>
        \A i, j \in 1..Len(groupInput) :
            i # j =>
                ((\E g \in 1..Len(groupOutput) :
                      {groupInput[i], groupInput[j]} \subseteq Members(groupOutput[g]))
                 <=> (/\ normalizeDescription(groupInput[i].description)
                            = normalizeDescription(groupInput[j].description)
                      /\ groupInput[i].isDuplicate = groupInput[j].isDuplicate))

\* "Starbucks #123" and "Starbucks #456" share the group "starbucks", and
\* "Gas Station" is in no group.
C20_Witness ==
    /\ pc = "grouped"
    /\ Len(groupInput) = 3
    /\ groupInput[1].description = T_Starbucks123
    /\ groupInput[2].description = T_Starbucks456
    /\ groupInput[3].description = T_GasStation
    /\ ~groupInput[1].isDuplicate /\ ~groupInput[2].isDuplicate
    /\ Len(groupOutput) = 1
    /\ groupOutput[1].description = <<"s", "t", "a", "r", "b", "u", "c", "k", "s">>
    /\ groupOutput[1].transactions = <<groupInput[1], groupInput[2]>>

\* A flagged "STARBUCKS  !" and an unflagged "Starbucks #456" are in the list,
\* and no group has both.
C20_WitnessFlag ==
    /\ pc = "grouped"
    /\ Len(groupInput) = 3
    /\ groupInput[1].description = T_STARBUCKS /\ groupInput[1].isDuplicate
    /\ groupInput[2].description = T_Starbucks456 /\ ~groupInput[2].isDuplicate
    /\ groupInput[3].description = T_STARBUCKS /\ groupInput[3].isDuplicate
    /\ Len(groupOutput) = 1
    /\ groupOutput[1].transactions = <<groupInput[1], groupInput[3]>>

\* The transactions of the list other than the i-th that have its key.
KeyMates(i) ==
    {j \in 1..Len(groupInput) : j # i /\ GroupKey(groupInput[j]) = GroupKey(groupInput[i])}

C21_WitnessAlone ==
    /\ pc = "grouped"
    /\ Len(groupInput) = 3
    /\ KeyMates(2) = {}
    /\ Len(groupOutput) = 1
    /\ groupOutput[1].transactions = <<groupInput[1], groupInput[3]>>
    /\ groupInput[1].isDuplicate

\* C22: for a list holding a single transaction the returned list is not
\* empty and its first group has a suggested category and a suggested type.
C22_SingleTransactionGrouped ==
    (pc = "grouped" /\ Len(groupInput) = 1) =>
        /\ Len(groupOutput) >= 1
        /\ groupOutput[1].suggestedCategory # UNDEFINED
        /\ groupOutput[1].suggestedType \in {"income", "expense"}

\* A candidate whose type is not set.
HasNoType(transaction) == transaction.type # "income" /\ transaction.type # "expense"

\* The numbers of members of a group that are income, and that are expense
\* when a member without a type counts as expense.
IncomeMembers(group) ==
    Cardinality({k \in 1..Len(group.transactions) : group.transactions[k].type = "income"})
ExpenseMembers(group) ==
    Cardinality({k \in 1..Len(group.transactions) :
        group.transactions[k].type = "expense" \/ HasNoType(group.transactions[k])})

\* C23: the suggested type of every group is the type most of its members
\* have, a member without a type counting as expense, and it is "expense"
\* when income and expense members are equal in number.
C23_MajorityType ==
    pc = "grouped" =>
        \A g \in 1..Len(groupOutput) :
            /\ IncomeMembers(groupOutput[g]) > ExpenseMembers(groupOutput[g])
                   => groupOutput[g].suggestedType = "income"
            /\ IncomeMembers(groupOutput[g]) < ExpenseMembers(groupOutput[g])
                   => groupOutput[g].suggestedType = "expense"
            /\ IncomeMembers(groupOutput[g]) = ExpenseMembers(groupOutput[g])
                   => groupOutput[g].suggestedType = "expense"

\* A group of one income member and one member without a type is suggested
\* as expense.
C23_Witness ==
    /\ pc = "grouped"
    /\ Len(groupOutput) = 1
    /\ Len(groupOutput[1].transactions) = 2
    /\ HasNoType(groupOutput[1].transactions[1])
    /\ groupOutput[1].transactions[2].type = "income"
    /\ groupOutput[1].suggestedType = "expense"

\* A group of two income members and one member without a type is suggested
\* as income.
C23_WitnessIncome ==
    /\ pc = "grouped"
    /\ Len(groupOutput) = 1
    /\ Len(groupOutput[1].transactions) = 3
    /\ IncomeMembers(groupOutput[1]) = 2
    /\ ExpenseMembers(groupOutput[1]) = 1
    /\ groupOutput[1].suggestedType = "income"

\* The edit distance by its recurrence: the fewest insertions, deletions and
\* substitutions of one character that turn a into b.
RECURSIVE EditDistance(_, _)
EditDistance(a, b) ==
    IF a = <<>> THEN Len(b)
    ELSE IF b = <<>> THEN Len(a)
    ELSE Min3(EditDistance(Tail(a), b) + 1,
              EditDistance(a, Tail(b)) + 1,
              EditDistance(Tail(a), Tail(b)) + (IF Head(a) = Head(b) THEN 0 ELSE 1))

\* C27: levenshteinDistance is the edit distance with cost 1 for an insertion,
\* a deletion and a substitution; calculateStringSimilarity gives the same
\* value in both orders of its arguments, a value between 0 and 1, and 1
\* exactly when the two texts are equal, two empty texts included.
C27_EditDistance ==
    pc = "compared" =>
        /\ similarityOutput.distance = EditDistance(similarityInput[1], similarityInput[2])
        /\ similarityOutput.similarity = similarityOutput.reverse
        /\ similarityOutput.similarity[2] > 0
        /\ similarityOutput.similarity[1] >= 0
        /\ similarityOutput.similarity[1] <= similarityOutput.similarity[2]
        /\ (similarityOutput.similarity[1] = similarityOutput.similarity[2])
               <=> (similarityInput[1] = similarityInput[2])

\* "abc" and "cb" are two edits apart and one third similar.
C27_Witness ==
    /\ pc = "compared"
    /\ similarityInput = <<<<"a", "b", "c">>, <<"c", "b">>>>
    /\ similarityOutput.distance = 2
    /\ similarityOutput.similarity = <<1, 3>>

\* Two empty texts are fully similar.
C27_WitnessEmpty ==
    /\ pc = "compared"
    /\ similarityInput = <<<<>>, <<>>>>
    /\ similarityOutput.similarity = <<1, 1>>

\* after is before in which only records with the identifier id are changed
\* or missing: every other record is kept, in its place among the others.
RECURSIVE DiffersOnlyIn(_, _, _)
DiffersOnlyIn(before, after, id) ==
    IF before = <<>> THEN after = <<>>
    ELSE IF Head(before).id # id
         THEN /\ after # <<>>
              /\ Head(after) = Head(before)
              /\ DiffersOnlyIn(Tail(before), Tail(after), id)
         ELSE \/ DiffersOnlyIn(Tail(before), after, id)
              \/ after # <<>> /\ DiffersOnlyIn(Tail(before), Tail(after), id)

\* C26: updateTransaction and deleteTransaction called with an identifier no
\* stored transaction has return false and leave the stored list as it was;
\* called with an identifier that is present they return true, and the list
\* loadTransactions gives afterwards differs only in the records with that
\* identifier.
C26_AbsentAndPresent ==
    [][storageCall'.count # storageCall.count =>
          IF \E i \in 1..Len(stored) : stored[i].id = storageCall'.id
          THEN /\ storageReturned' = TRUE
               /\ DiffersOnlyIn(loadTransactions(stored), loadTransactions(stored'),
                                storageCall'.id)
          ELSE /\ storageReturned' = FALSE
               /\ stored' = stored]_vars

\* An update of the second of two records has changed it and nothing else.
C26_Witness ==
    /\ storageCall.op = "updateTransaction"
    /\ storageCall.count = 1
    /\ storageCall.id = Record(2, D_Jan30, T_GroceryStore, parseAmount(A_45_67)).id
    /\ storageCall.updates = [description |-> T_abc]
    /\ storageReturned = TRUE
    /\ stored = <<Record(1, D_Jan15, T_GroceryStore, parseAmount(A_45_67)),
                  Record(2, D_Jan30, T_abc, parseAmount(A_45_67))>>

\* A delete of an identifier that is not stored has returned false.
C26_WitnessAbsent ==
    /\ storageCall.op = "deleteTransaction"
    /\ storageCall.id = NONEXISTENT
    /\ storageReturned = FALSE
    /\ Len(stored) = 2

\* A delete has removed the two records that have the identifier.
C26_WitnessDeleted ==
    /\ storageCall.op = "deleteTransaction"
    /\ storageCall.count = 1
    /\ storageCall.id = Record(1, D_Jan15, T_GroceryStore, parseAmount(A_45_67)).id
    /\ storageReturned = TRUE
    /\ stored = <<>>

\* C25: every transaction exported under the header
\* Date,Description,Category,Type,Amount,Created At comes back from
\* parseCSV, detectColumnMappings and processImportedTransactions as a
\* candidate with the same date, description, amount and type, whatever
\* keywords its description contains.
C25_RoundTrip ==
    (pc = "returned" /\ csvText # <<>>) =>
        /\ Len(parsedTransactions) = Len(stored)
        /\ \A i \in 1..Len(parsedTransactions) :
              /\ parsedTransactions[i].date = stored[i].date
              /\ parsedTransactions[i].description = stored[i].description
              /\ parsedTransactions[i].amount = stored[i].amount
              /\ parsedTransactions[i].type = stored[i].type

\* The same, for the transactions whose description has no double quote.
C25_RoundTripUnquoted ==
    (pc = "returned" /\ csvText # <<>>
        /\ \A i \in 1..Len(stored) : ~Includes(stored[i].description, <<QUOTE>>)) =>
        /\ Len(parsedTransactions) = Len(stored)
        /\ \A i \in 1..Len(parsedTransactions) :
              /\ parsedTransactions[i].date = stored[i].date
              /\ parsedTransactions[i].description = stored[i].description
              /\ parsedTransactions[i].amount = stored[i].amount
              /\ parsedTransactions[i].type = stored[i].type

(***************************************************************************)
(* Properties of the import wizard.                                        *)
(***************************************************************************)
\* C24: a transaction group that has just been created (by
\* handleMappingConfirm or by handleDuplicateReview) has its inclusion flag
\* true, except that a group all of whose members are flagged duplicate has
\* its inclusion flag false.
C24_DefaultInclusion ==
    pc \in {"handleMappingConfirm", "handleDuplicateReview"} =>
        \A g \in 1..Len(transactionGroups) :
            transactionGroups[g].includeInImport = ~AllAreDuplicates(transactionGroups[g])

\* The part of C24 that the groups of handleMappingConfirm satisfy.
DefaultInclusionAtMappingConfirm ==
    pc = "handleMappingConfirm" =>
        \A g \in 1..Len(transactionGroups) :
            transactionGroups[g].includeInImport = ~AllAreDuplicates(transactionGroups[g])

\* A group of duplicates that handleMappingConfirm has excluded.
DuplicateGroupExcluded ==
    /\ pc = "handleMappingConfirm"
    /\ \E g \in 1..Len(transactionGroups) :
           AllAreDuplicates(transactionGroups[g]) /\ ~transactionGroups[g].includeInImport

\* The flagged candidates among the processed ones.
DuplicateIds == IdsOf(SelectSeq(parsedTransactions, LAMBDA t : t.isDuplicate))

\* C28: whatever the reviewer does in the wizard, a candidate flagged as
\* duplicate is handed to addTransaction only if it was checked in the
\* duplicates step at the most recent duplicate review.
C28_OnlyCheckedDuplicatesImported ==
    \A i \in 1..Len(imported) :
        imported[i].isDuplicate => imported[i].id \in reviewChecked

\* One duplicate was checked and imported, another was left unchecked and
\* was not imported.
C28_Witness ==
    /\ currentStep = "complete"
    /\ \E i \in 1..Len(imported) : imported[i].isDuplicate
    /\ \E id \in DuplicateIds : id \notin reviewChecked /\ id \notin IdsOf(imported)

\* The candidates the last grouping was made from: all processed ones after
\* handleMappingConfirm, the unflagged and the checked ones after
\* handleDuplicateReview.
RetainedIds ==
    IF pc = "handleMappingConfirm" THEN IdsOf(parsedTransactions)
    ELSE IdsOf(SelectSeq(parsedTransactions,
                         LAMBDA t : ~t.isDuplicate \/ t.id \in reviewChecked))

\* The places a candidate has in the groups and in the ungrouped list.
GroupPlaces(id) ==
    {<<g, k>> \in (1..Len(transactionGroups)) \X (1..Len(parsedTransactions)) :
        /\ k <= Len(transactionGroups[g].transactions)
        /\ transactionGroups[g].transactions[k].id = id}
UngroupedPlaces(id) ==
    {i \in 1..Len(ungroupedTransactions) : ungroupedTransactions[i].id = id}

\* C29: after handleMappingConfirm and after handleDuplicateReview every
\* retained candidate has exactly one place, in one group or in the ungrouped
\* list, and nothing else has a place; a final import hands no candidate to
\* addTransaction twice.
C29_GroupsPartitionRetained ==
    /\ pc \in {"handleMappingConfirm", "handleDuplicateReview"} =>
           /\ \A id \in RetainedIds :
                  Cardinality(GroupPlaces(id)) + Cardinality(UngroupedPlaces(id)) = 1
           /\ GroupedTransactionIds(transactionGroups) \cup IdsOf(ungroupedTransactions)
                  = RetainedIds
    /\ \A i, j \in 1..Len(imported) : imported[i].id = imported[j].id => i = j

\* A review that dropped an unchecked duplicate and left a group.
C29_Witness ==
    /\ pc = "handleDuplicateReview"
    /\ Len(transactionGroups) >= 1
    /\ RetainedIds # IdsOf(parsedTransactions)

\* An import of the members of a group and of a single candidate.
C29_WitnessImported ==
    /\ currentStep = "complete"
    /\ Len(transactionGroups) >= 1 /\ Len(ungroupedTransactions) >= 1
    /\ Len(imported) = Len(parsedTransactions) /\ Len(imported) >= 3

\* C30: the step 'complete' is entered only from 'confirm'; addTransaction
\* is called only by the final import started from 'confirm'; confirming the
\* mapping leads to 'duplicates' exactly when a processed candidate is
\* flagged duplicate and to 'bulk-edit' otherwise; Back from 'bulk-edit'
\* leads to 'duplicates' under the same condition and to 'mapping' otherwise.
C30_StepOrder ==
    [][/\ (currentStep' = "complete" /\ currentStep # "complete") =>
              currentStep = "confirm"
       /\ (stored' # stored \/ imported' # imported) =>
              (currentStep = "confirm" /\ pc' = "handleFinalImport")
       /\ pc' = "handleMappingConfirm" =>
              /\ currentStep = "mapping"
              /\ currentStep' = (IF DuplicateIds' # {} THEN "duplicates" ELSE "bulk-edit")
       /\ (pc' = "handleBack" /\ currentStep = "bulk-edit") =>
              /\ DuplicateIds' = DuplicateIds
              /\ currentStep' = (IF DuplicateIds # {} THEN "duplicates" ELSE "mapping")
      ]_vars

\* A run that went through 'duplicates' and stored candidates at the end.
C30_Witness ==
    /\ currentStep = "complete"
    /\ DuplicateIds # {}
    /\ Len(stored) >= 3

\* A run without duplicates, back in 'mapping' from 'bulk-edit'.
C30_WitnessBack ==
    /\ pc = "handleBack" /\ currentStep = "mapping"
    /\ parsedTransactions # <<>> /\ DuplicateIds = {}

=============================================================================
